---- MODULE Spec2Model ----
(***************************************************************************)
(* Model of the meeting-assistant backend: one request travelling through  *)
(* api/views.py (process_audio, process_audio_with_speakers) and           *)
(* api/services.py (BhashiniService, GeminiService).                       *)
(*                                                                         *)
(* Representation of Python values:                                        *)
(*   - a text (transcript, notes, prompt input) is a sequence of chunks;   *)
(*     the chunk " " stands for a run of whitespace, every other chunk for *)
(*     a run of non-whitespace characters.  <<>> is the empty string.      *)
(*   - a language code is the list str.split('-') gives for it, a          *)
(*     non-empty sequence of dash-free strings: "en-US" is <<"en","US">>,  *)
(*     "" is <<"">>.                                                       *)
(*   - an optional value (None / raised or not) is a sequence of length    *)
(*     0 or 1.                                                             *)
(***************************************************************************)
EXTENDS Integers, Sequences, FiniteSets, TLC

(***************************************************************************)
(* Bounds of the model and program constants                               *)
(***************************************************************************)

\* largest max_retries a direct caller of BhashiniService.process_audio passes
MaxRetriesBound == 4

\* default of the max_retries parameter of BhashiniService.process_audio
DefaultMaxRetries == 3

None == << >>

Some(x) == << x >>

(***************************************************************************)
(* Python str operations on texts                                          *)
(***************************************************************************)

\* bool(s) of a str
Truthy(t) == Len(t) > 0

RECURSIVE LStrip(_)
LStrip(t) == IF t # << >> /\ Head(t) = " " THEN LStrip(Tail(t)) ELSE t

RECURSIVE RStrip(_)
RStrip(t) == IF t # << >> /\ t[Len(t)] = " " THEN RStrip(SubSeq(t, 1, Len(t) - 1)) ELSE t

\* str.strip()
Strip(t) == RStrip(LStrip(t))

\* `not s or s.strip() == ""`
IsBlank(t) == ~Truthy(t) \/ Strip(t) = << >>

(***************************************************************************)
(* Python str operations on language codes                                 *)
(***************************************************************************)

\* str.lower() on the dash-free strings the model uses
Lower(s) ==
  CASE s = "HI" -> "hi"
    [] s = "EN" -> "en"
    [] s = "FR" -> "fr"
    [] s = "US" -> "us"
    [] OTHER -> s

\* code.split('-')[0].lower(), as api/views.py applies it to both codes;
\* the result is dash-free, so its split list has one element
ViewNormalize(code) == << Lower(Head(code)) >>

SupportedLanguages == {"hi", "en"}

\* a normalisation that passes an unsupported base code on
ServiceNormalizeNoCoercion(code, default) ==
  IF code # << "" >> THEN Lower(Head(code)) ELSE default

\* BhashiniService.process_audio: split, lower, default when empty, then
\* coercion of an unsupported code to the default
ServiceNormalize(code, default) ==
  LET base == IF code # << "" >> THEN Lower(Head(code)) ELSE default
  IN  IF base \in SupportedLanguages THEN base ELSE default

(***************************************************************************)
(* APIError and the upstream replies                                       *)
(***************************************************************************)

APIError(msg, status_code, service) ==
  [message |-> msg, status_code |-> status_code, service |-> service]

\* statuses other than 200, 500, 401, 400 the pipeline service may answer
OtherStatuses == {403, 503}

\* texts the ASR / translation stages may carry
UpstreamTexts == { << >>, << " " >>, << "namaste" >> }

\* shape of one pipelineResponse entry:
\*   nokey     - the entry has no 'output' key
\*   emptylist - 'output' is []
\*   nofield   - 'output' is [{}] (no 'source' / 'target')
\*   text      - 'output' is [{source|target: text}]
StageOutputs ==
  { [shape |-> "nokey", text |-> << >>],
    [shape |-> "emptylist", text |-> << >>],
    [shape |-> "nofield", text |-> << >>] }
  \cup { [shape |-> "text", text |-> t] : t \in UpstreamTexts }

ExtraStage == [shape |-> "nokey", text |-> << >>]

\* bodies of a 200 answer: unparsable, or an object with 0..3 stages
Bodies ==
  { [json |-> FALSE, stages |-> << >>],
    [json |-> TRUE, stages |-> << >>],
    [json |-> TRUE, stages |-> << ExtraStage >>] }
  \cup { [json |-> TRUE, stages |-> << a, b >>] : a \in StageOutputs, b \in StageOutputs }
  \cup { [json |-> TRUE, stages |-> << a, a, ExtraStage >>] : a \in StageOutputs }

NoBody == [json |-> FALSE, stages |-> << >>]

\* what one requests.post of the retry loop can end in
Replies ==
  { [kind |-> "http", status |-> 200, body |-> b] : b \in Bodies }
  \cup { [kind |-> "http", status |-> s, body |-> NoBody] : s \in {500, 401, 400} \cup OtherStatuses }
  \cup { [kind |-> k, status |-> 0, body |-> NoBody] : k \in {"timeout", "connerr", "exception"} }

\* safe_json followed by result.get("pipelineResponse", [])
PipelineOutputs(body) == IF body.json THEN body.stages ELSE << >>

\* outputs[i].get("output", [{}])[0].get(field, "")
StageText(stage) == IF stage.shape = "text" THEN stage.text ELSE << >>

\* the 200 branch of process_audio: the returned dict or the raised APIError
ExtractResult(body, source_lang) ==
  LET outputs == PipelineOutputs(body)
  IN  IF Len(outputs) < 2
        THEN [raised |-> Some(APIError("incomplete", 500, "bhashini")), value |-> None]
      ELSE IF outputs[1].shape = "emptylist" \/ outputs[2].shape = "emptylist"
        THEN [raised |-> Some(APIError("extract", 500, "bhashini")), value |-> None]
      ELSE [raised |-> None,
            value  |-> Some([transcription     |-> StageText(outputs[1]),
                             translation       |-> StageText(outputs[2]),
                             detected_language |-> source_lang,
                             status            |-> "success"])]

(***************************************************************************)
(* load_and_resample_audio and the audio preparation of process_audio      *)
(* (services.py:204-215) as functions of the audio handed in               *)
(***************************************************************************)

\* the default of target_sr
TargetRate == 16000

\* `abs(sr - target_sr) < 1000`
Tolerance == 1000

\* "samplingRate" in the payload of process_audio
SamplingRate == 16000

MaxSamples == 4

\* native sample rates of the decoded audio
NativeRates == {8000, 15001, 16000, 16999, 17000, 22050, 32000, 44100, 48000}

\* How the decoders fare on audio_data:
\*   noimport    - `import librosa` raises inside the function
\*   writefail   - writing the temporary file raises
\*   primary     - librosa.load and librosa.resample succeed
\*   secondary   - librosa raises, soundfile.read succeeds
\*   undecodable - librosa and soundfile both raise
\* sr is the native rate, signal the decoded samples, encodes whether
\* sf.write of audio_to_base64 succeeds on the samples.  A sample is its
\* amplitude in units of full scale (1 is 1.0); a float WAV can hold more.

\* n samples of silence
Silent(n) == [i \in 1..n |-> 0]

\* n samples of growing amplitude and alternating sign, each one different
Ramp(n) == [i \in 1..n |-> IF i % 2 = 1 THEN i ELSE 0 - i]

Signals == { Silent(n) : n \in 0..MaxSamples } \cup { Ramp(n) : n \in 0..MaxSamples }

AudioInputs ==
  { [decode |-> k, sr |-> r, signal |-> y, encodes |-> e] :
      k \in {"noimport", "writefail", "primary", "secondary", "undecodable"},
      r \in NativeRates, y \in Signals, e \in BOOLEAN }

\* the audio of the requests that are not about audio
DefaultAudio == [decode |-> "primary", sr |-> 44100, signal |-> Ramp(2), encodes |-> TRUE]

\* -(-a // b)
CeilDiv(a, b) == (a + b - 1) \div b

\* librosa.resample(y, orig_sr=sr, target_sr=target_sr): ceil(n * target_sr /
\* sr) samples; each takes the value of the input sample under its position
\* (the interpolation filter of the library is not part of the source)
Resample(y, sr, target_sr) ==
  [i \in 1..CeilDiv(Len(y) * target_sr, sr) |-> y[((i - 1) * sr) \div target_sr + 1]]

\* a decimation that keeps every sample
DecimateKeepingAll(y, step) == y

\* a decimation that yields sample positions in place of the samples
DecimatePositions(y, step) == [i \in 1..CeilDiv(Len(y), step) |-> (i - 1) * step + 1]

\* y[::step]
Decimate(y, step) == [i \in 1..CeilDiv(Len(y), step) |-> y[(i - 1) * step + 1]]

Abs(x) == IF x < 0 THEN 0 - x ELSE x

\* load_and_resample_audio(audio_data, target_sr): the pair (y, sr) it
\* returns, (None, None) as two empty options, and what became of the
\* temporary file
LoadAndResampleAudio(audio, target_sr) ==
  CASE audio.decode = "noimport" ->
         [y |-> None, sr |-> None, temp_file |-> "none"]
    [] audio.decode = "writefail" ->
         [y |-> None, sr |-> None, temp_file |-> "left"]
    [] audio.decode = "primary" ->
         [y |-> Some(Resample(audio.signal, audio.sr, target_sr)),
          sr |-> Some(target_sr), temp_file |-> "removed"]
    [] audio.decode = "secondary" ->
         IF Abs(audio.sr - target_sr) < Tolerance
           THEN [y |-> Some(audio.signal), sr |-> Some(audio.sr),
                 temp_file |-> "removed"]
         ELSE IF audio.sr > target_sr
           THEN [y |-> Some(Decimate(audio.signal, audio.sr \div target_sr)),
                 sr |-> Some(target_sr), temp_file |-> "removed"]
         ELSE [y |-> Some(audio.signal), sr |-> Some(audio.sr),
               temp_file |-> "removed"]
    [] OTHER ->
         [y |-> None, sr |-> None, temp_file |-> "removed"]

\* the caller's base64 string, passed on unchanged
OriginalContent == [original |-> TRUE, y |-> << >>, rate |-> 0]

\* a preparation that sends the resampled audio even when encoding it failed
AudioContentUnencoded(audio, loaded) ==
  IF loaded.y # None
    THEN [original |-> FALSE, y |-> loaded.y[1], rate |-> loaded.sr[1]]
    ELSE OriginalContent

\* services.py:206-215: the audioContent of the payload.  audio_to_base64
\* writes the samples as WAV at the rate it is given; its APIError is caught
\* by the `except Exception` of line 213.
AudioContent(audio, loaded) ==
  IF loaded.y # None /\ audio.encodes
    THEN [original |-> FALSE, y |-> loaded.y[1], rate |-> loaded.sr[1]]
    ELSE OriginalContent

(***************************************************************************)
(* State of one request                                                    *)
(***************************************************************************)

VARIABLES
  entry,                \* what is called: one of the two views, or the service method directly
  source_in,            \* sourceLanguage as the caller gave it
  target_in,            \* targetLanguage as the caller gave it
  pre_meeting_notes,    \* preMeetingNotes as the caller gave it
  include_diarization,  \* includeDiarization
  max_retries,          \* max_retries of BhashiniService.process_audio
  audio_ok,             \* whether base64.b64decode accepts the audio string
  pc,                   \* position of the request in the code
  view_source,          \* source_lang of the view after views.py:126
  view_target,          \* target_lang of the view after views.py:127
  source_lang,          \* sourceLanguage placed in the pipeline payload
  target_lang,          \* targetLanguage placed in the pipeline payload
  attempt,              \* loop variable of the retry loop
  requests,             \* requests.post calls made by process_audio
  sleeps,               \* the time.sleep durations of process_audio, in order
  outcomes,             \* how each request of process_audio ended, in order
  pa_result,            \* the dict process_audio returned, if it returned
  pa_error,             \* the APIError process_audio raised, if it raised
  diar_reply,           \* how the diarization service answers a request
  diar_requests,        \* requests.post calls made by speaker_diarization
  diar_result,          \* the dict speaker_diarization returned, if it returned
  diar_error,           \* the APIError speaker_diarization raised, if it raised
  enh_result,           \* the dict process_audio_with_speakers returned
  enh_error,            \* the APIError process_audio_with_speakers raised
  analysis_input,       \* the text passed to generate_summary_and_actions
  gemini_reply,         \* how the generative service answered, if asked
  gemini_requests,      \* requests.post calls made by generate_summary_and_actions
  analysis,             \* the dict generate_summary_and_actions returned
  response              \* the JsonResponse of the view

inputs == << entry, source_in, target_in, pre_meeting_notes, include_diarization,
             max_retries, audio_ok, diar_reply >>

viewLangs == << view_source, view_target >>

paVars == << source_lang, target_lang, attempt, requests, sleeps, outcomes,
             pa_result, pa_error >>

diarVars == << diar_requests, diar_result, diar_error >>

enhVars == << enh_result, enh_error >>

geminiVars == << analysis_input, gemini_reply, gemini_requests, analysis >>

\* the variables of the specifications of single functions (end of the module);
\* a request leaves them alone
VARIABLES
  spk_payload,    \* speaker_output, the argument of _format_bhashini_speaker_data
  spk_return,     \* speakers, its return value
  gem_text,       \* text, the argument of generate_summary_and_actions
  gem_answer,     \* how the generative service answers that call
  gem_return,     \* what generate_summary_and_actions returned or raised
  aud_input,      \* audio_data of load_and_resample_audio, as the decoders see it
  aud_return,     \* its return value (y, sr)
  aud_content     \* the audioContent process_audio places in the payload

\* the module globals of services.py and the worker threads that call
\* get_bhashini_service / get_gemini_service
VARIABLES
  _bhashini_service,  \* the global of line 848: None or the instance
  _gemini_service,    \* the global of line 849
  built,              \* per class, how many instances were constructed
  threads,            \* per worker thread, where it is inside a getter
  returned            \* per worker thread, the instances its calls returned

singletonVars == << _bhashini_service, _gemini_service, built, threads, returned >>

pureVars == << spk_payload, spk_return, gem_text, gem_answer, gem_return,
               aud_input, aud_return, aud_content, singletonVars >>

\* no single function is being applied
PureIdle ==
  /\ spk_payload = None
  /\ spk_return = None
  /\ gem_text = None
  /\ gem_answer = None
  /\ gem_return = None

vars == << inputs, pc, viewLangs, paVars, diarVars, enhVars, geminiVars, response, pureVars >>

Views == {"view_process_audio", "view_with_speakers"}

Entries == Views \cup {"service_process_audio"}

\* language codes a caller may send: a supported code and a region-tagged one
LangInputs == { << "hi" >>, << "en", "US" >> }

\* preMeetingNotes a caller may send: absent/empty, whitespace only, real notes
NotesInputs == { << >>, << " " >>, << "agenda" >> }

\* answers of the diarization service to a request, were one sent
DiarReplies == {"ok200", "connerr"}

\* bound on the worker threads of the process and on the calls each makes
MaxThreads == 2

MaxCalls == 2

Threads == 1..MaxThreads

ServiceClasses == {"bhashini", "gemini"}

IdleThread == [at |-> "idle", service |-> "bhashini", instance |-> 0]

\* services.py:848-849 at import time, no request being served
ProcessStart ==
  /\ _bhashini_service = None
  /\ _gemini_service = None
  /\ built = [c \in ServiceClasses |-> 0]
  /\ threads = [t \in Threads |-> IdleThread]
  /\ returned = [t \in Threads |-> << >>]

\* no request has run yet
Fresh ==
  /\ pc = "start"
  /\ view_source = None
  /\ view_target = None
  /\ source_lang = ""
  /\ target_lang = ""
  /\ attempt = 0
  /\ requests = 0
  /\ sleeps = << >>
  /\ outcomes = << >>
  /\ pa_result = None
  /\ pa_error = None
  /\ diar_requests = 0
  /\ diar_result = None
  /\ diar_error = None
  /\ enh_result = None
  /\ enh_error = None
  /\ analysis_input = None
  /\ gemini_reply = None
  /\ gemini_requests = 0
  /\ analysis = None
  /\ response = None
  /\ aud_return = None
  /\ aud_content = None
  /\ ProcessStart

Init ==
  /\ entry \in Entries
  /\ source_in \in LangInputs
  /\ target_in \in LangInputs
  /\ pre_meeting_notes \in (IF entry \in Views THEN NotesInputs ELSE { << >> })
  /\ include_diarization \in (IF entry = "view_with_speakers" THEN BOOLEAN ELSE {FALSE})
  /\ max_retries \in (IF entry \in Views THEN {DefaultMaxRetries} ELSE 0..MaxRetriesBound)
  /\ audio_ok \in BOOLEAN
  /\ diar_reply \in (IF entry = "view_with_speakers" THEN DiarReplies ELSE {"ok200"})
  /\ aud_input = Some(DefaultAudio)
  /\ Fresh
  /\ PureIdle

(***************************************************************************)
(* views.py: request parsing up to the call of the service                 *)
(***************************************************************************)

\* views.process_audio / views.process_audio_with_speakers, lines up to the
\* service call: both codes are split on '-' and lower-cased
ViewParse ==
  /\ pc = "start"
  /\ entry \in Views
  /\ view_source' = Some(ViewNormalize(source_in))
  /\ view_target' = Some(ViewNormalize(target_in))
  /\ pc' = "pa_begin"
  /\ UNCHANGED << pureVars, inputs, paVars, diarVars, enhVars, geminiVars, response >>

\* a caller invoking BhashiniService.process_audio itself
ServiceCall ==
  /\ pc = "start"
  /\ entry = "service_process_audio"
  /\ pc' = "pa_begin"
  /\ UNCHANGED << pureVars, inputs, viewLangs, paVars, diarVars, enhVars, geminiVars, response >>

\* the codes process_audio receives
ArgSource == IF entry \in Views THEN view_source[1] ELSE source_in

ArgTarget == IF entry \in Views THEN view_target[1] ELSE target_in

(***************************************************************************)
(* BhashiniService.process_audio                                           *)
(***************************************************************************)

\* lines 186-270: language normalisation, base64 decoding, payload
ProcessAudioBegin ==
  /\ pc = "pa_begin"
  /\ source_lang' = ServiceNormalize(ArgSource, "hi")
  /\ target_lang' = ServiceNormalize(ArgTarget, "en")
  /\ IF audio_ok
       THEN /\ pc' = "pa_loop"
            /\ pa_error' = pa_error
            /\ aud_return' = Some(LoadAndResampleAudio(aud_input[1], TargetRate))
            /\ aud_content' = Some(AudioContent(aud_input[1], aud_return'[1]))
       ELSE /\ pc' = "pa_done"
            /\ pa_error' = Some(APIError("audio", 500, "bhashini"))
            /\ UNCHANGED << aud_return, aud_content >>
  /\ UNCHANGED << spk_payload, spk_return, gem_text, gem_answer, gem_return, aud_input,
                  singletonVars, inputs, viewLangs, attempt, requests, sleeps, outcomes, pa_result,
                  diarVars, enhVars, geminiVars, response >>

\* a backoff that starts at 2 seconds instead of 1
BackoffFromTwo(a) == 2 ^ (a + 1)

\* time.sleep(2 ** attempt)
Backoff(a) == 2 ^ a

\* the statuses of timeout and connection failure exchanged
ExhaustedErrorSwapped(reply) ==
  CASE reply.kind = "http"      -> APIError("exhausted", 500, "bhashini")
    [] reply.kind = "timeout"   -> APIError("timeout", 503, "bhashini")
    [] reply.kind = "connerr"   -> APIError("connection", 408, "bhashini")
    [] reply.kind = "exception" -> APIError("unexpected", 500, "bhashini")

\* every exhausted retry reported as a server error
ExhaustedAlways500(reply) == APIError("exhausted", 500, "bhashini")

\* the status of the APIError raised when a retryable failure exhausts the attempts
ExhaustedError(reply) ==
  CASE reply.kind = "http"      -> APIError("exhausted", 500, "bhashini")
    [] reply.kind = "timeout"   -> APIError("timeout", 408, "bhashini")
    [] reply.kind = "connerr"   -> APIError("connection", 503, "bhashini")
    [] reply.kind = "exception" -> APIError("unexpected", 500, "bhashini")

\* every status other than 200 retried, as the loop of speaker_diarization does
RetryableAnyStatus(reply) ==
  \/ reply.kind \in {"timeout", "connerr", "exception"}
  \/ reply.kind = "http" /\ reply.status # 200

\* whether the loop body retries after this reply (given attempts remain)
Retryable(reply) ==
  \/ reply.kind \in {"timeout", "connerr", "exception"}
  \/ reply.kind = "http" /\ reply.status = 500

\* the APIError raised by the loop body for a non-retryable status
FatalError(reply) ==
  CASE reply.status = 401 -> APIError("auth", 401, "bhashini")
    [] reply.status = 400 -> APIError("bad_request", 400, "bhashini")
    [] OTHER              -> APIError("failed", reply.status, "bhashini")

\* a loop that never takes an attempt for the last one
LastAttemptNever(a, n) == FALSE

\* `if attempt == max_retries - 1`, lines 325, 354, 360 and 370
LastAttempt(a, n) == a = n - 1

Outcome(reply) == [kind |-> reply.kind, status |-> reply.status, body |-> reply.body]

\* one iteration of `for attempt in range(max_retries)`, lines 273-374
Attempt ==
  /\ pc = "pa_loop"
  /\ attempt < max_retries
  /\ \E reply \in Replies :
       /\ requests' = requests + 1
       /\ outcomes' = Append(outcomes, Outcome(reply))
       /\ IF reply.kind = "http" /\ reply.status = 200
            THEN LET r == ExtractResult(reply.body, source_lang)
                 IN  /\ pa_result' = r.value
                     /\ pa_error' = r.raised
                     /\ pc' = "pa_done"
                     /\ UNCHANGED << attempt, sleeps >>
          ELSE IF Retryable(reply)
            THEN IF LastAttempt(attempt, max_retries)
                   THEN /\ pa_error' = Some(ExhaustedError(reply))
                        /\ pc' = "pa_done"
                        /\ UNCHANGED << attempt, sleeps, pa_result >>
                   ELSE /\ sleeps' = Append(sleeps, Backoff(attempt))
                        /\ attempt' = attempt + 1
                        /\ UNCHANGED << pc, pa_result, pa_error >>
          ELSE /\ pa_error' = Some(FatalError(reply))
               /\ pc' = "pa_done"
               /\ UNCHANGED << attempt, sleeps, pa_result >>
  /\ UNCHANGED << pureVars, inputs, viewLangs, source_lang, target_lang,
                  diarVars, enhVars, geminiVars, response >>

\* line 377: the raise placed after the loop
LoopFallThrough ==
  /\ pc = "pa_loop"
  /\ attempt >= max_retries
  /\ pa_error' = Some(APIError("after_loop", 500, "bhashini"))
  /\ pc' = "pa_done"
  /\ UNCHANGED << pureVars, inputs, viewLangs, source_lang, target_lang, attempt, requests, sleeps,
                  outcomes, pa_result, diarVars, enhVars, geminiVars, response >>

\* the direct caller gets the dict or the APIError
ServiceReturn ==
  /\ pc = "pa_done"
  /\ entry = "service_process_audio"
  /\ pc' = "done"
  /\ UNCHANGED << pureVars, inputs, viewLangs, paVars, diarVars, enhVars, geminiVars, response >>

(***************************************************************************)
(* BhashiniService.speaker_diarization and _format_bhashini_speaker_data   *)
(***************************************************************************)

\* the instance attributes BhashiniService.__init__ assigns
BhashiniAttrs == [api_token |-> "token", compute_url |-> "pipeline-url"]

\* A raw diarization output, as _format_bhashini_speaker_data inspects it.
\* shape: "empty" is [], "notdict" a list whose first element is no dict,
\* "nolabels" a dict without 'speaker_labels', "labels_notlist" a dict whose
\* 'speaker_labels' is no list, "labels" a dict with a speaker_labels list.
\* A label entry is the one-key dict {speaker_id: segments} (isdict), or
\* something else; its segments are a list (islist) or something else.  A
\* segment is a dict whose 'duration' float() accepts (numeric) or rejects.

\* the segment dict {'start_time': 0, 'duration': d}
Segment(d) == [numeric |-> TRUE, start_time |-> 0, duration |-> d]

\* the segment dict {'start_time': s, 'duration': d}
SegmentAt(s, d) == [numeric |-> TRUE, start_time |-> s, duration |-> d]

\* a segment dict whose duration is not a number
BadSegment == [numeric |-> FALSE, start_time |-> 0, duration |-> 0]

LabelEntry(id, segments) ==
  [isdict |-> TRUE, speaker_id |-> id, islist |-> TRUE, segments |-> segments]

\* the output a 200 answer of the diarization service carries in the model
\* of the request flow
DiarPayload ==
  [shape |-> "labels",
   speaker_labels |->
     << LabelEntry("SPEAKER_00", << Segment(2), Segment(3) >>),
        LabelEntry("SPEAKER_01", << Segment(7) >>) >>]

RECURSIVE SumSeq(_)
SumSeq(q) == IF q = << >> THEN 0 ELSE Head(q) + SumSeq(Tail(q))

\* a check of the first label entry only
RaisesInFirstEntry(speaker_labels) ==
  /\ speaker_labels # << >>
  /\ speaker_labels[1].isdict
  /\ speaker_labels[1].islist
  /\ \E j \in 1..Len(speaker_labels[1].segments) :
       ~speaker_labels[1].segments[j].numeric

\* float() raises on a segment the loops reach
RaisesInLoop(speaker_labels) ==
  \E i \in 1..Len(speaker_labels) :
    /\ speaker_labels[i].isdict
    /\ speaker_labels[i].islist
    /\ \E j \in 1..Len(speaker_labels[i].segments) :
         ~speaker_labels[i].segments[j].numeric

\* lines 555-559: the entry speaker_times gets for a new speaker id; label
\* and percentage are keys the dict does not have yet
NewProfile(id) ==
  [speaker_id |-> id, segments |-> << >>, total_duration |-> 0,
   label |-> None, percentage |-> None]

\* a record whose end_time is the duration of the segment
SegmentRecordEndAtDuration(segment) ==
  [start_time |-> segment.start_time, end_time |-> segment.duration,
   duration |-> segment.duration]

\* lines 565-573: the dict appended for one segment
SegmentRecord(segment) ==
  LET start_time == segment.start_time
      duration == segment.duration
      end_time == start_time + duration
  IN  [start_time |-> start_time, end_time |-> end_time, duration |-> duration]

\* lines 563-574: the loop over the segments of one speaker
RECURSIVE AddSegments(_, _)
AddSegments(profile, segments) ==
  IF segments = << >> THEN profile
  ELSE AddSegments(
         [profile EXCEPT
            !.segments = Append(@, SegmentRecord(Head(segments))),
            !.total_duration = @ + Head(segments).duration],
         Tail(segments))

\* lines 551-574: the loop over speaker_labels; speaker_times is a dict, kept
\* here as the list of its values in insertion order
RECURSIVE CollectSpeakerTimes(_, _)
CollectSpeakerTimes(speaker_labels, speaker_times) ==
  IF speaker_labels = << >> THEN speaker_times
  ELSE LET e == Head(speaker_labels)
           known == \E i \in 1..Len(speaker_times) :
                      speaker_times[i].speaker_id = e.speaker_id
           withId == IF known THEN speaker_times
                     ELSE Append(speaker_times, NewProfile(e.speaker_id))
           k == CHOOSE i \in 1..Len(withId) : withId[i].speaker_id = e.speaker_id
       IN  IF ~e.isdict
             THEN CollectSpeakerTimes(Tail(speaker_labels), speaker_times)
           ELSE IF ~e.islist
             THEN CollectSpeakerTimes(Tail(speaker_labels), withId)
           ELSE CollectSpeakerTimes(Tail(speaker_labels),
                                    [withId EXCEPT ![k] = AddSegments(@, e.segments)])

\* insertion into a list kept in non-increasing order of total_duration,
\* after the entries of equal duration (sorted(..., reverse=True) is stable)
RECURSIVE InsertByDuration(_, _)
InsertByDuration(sp, sorted) ==
  IF sorted = << >> THEN << sp >>
  ELSE IF Head(sorted).total_duration >= sp.total_duration
         THEN << Head(sorted) >> \o InsertByDuration(sp, Tail(sorted))
         ELSE << sp >> \o sorted

RECURSIVE SortByDuration(_)
SortByDuration(q) ==
  IF q = << >> THEN << >>
  ELSE InsertByDuration(q[Len(q)], SortByDuration(SubSeq(q, 1, Len(q) - 1)))

\* round(total / sum * 100, 1) in tenths of a percent, for sum > 0; a tie
\* goes to the even tenth
RoundedShare(total, sum) ==
  LET q == (1000 * total) \div sum
      r == (1000 * total) % sum
  IN  IF 2 * r > sum THEN q + 1
      ELSE IF 2 * r < sum THEN q
      ELSE IF q % 2 = 0 THEN q ELSE q + 1

\* lines 579-582: the loop that adds 'label' and 'percentage'.  The guard
\* `if speakers else 0` is always true inside the loop, so the division is
\* evaluated for every profile: when the durations sum to 0 it raises
\* ZeroDivisionError at the first profile, after that profile got its label
\* and before any percentage is stored, and the loop is left.
LabelAndShare(sorted) ==
  LET sum == SumSeq([i \in 1..Len(sorted) |-> sorted[i].total_duration])
  IN  IF sum = 0
        THEN [i \in 1..Len(sorted) |->
                IF i = 1 THEN [sorted[i] EXCEPT !.label = Some(1)] ELSE sorted[i]]
        ELSE [i \in 1..Len(sorted) |->
                [sorted[i] EXCEPT
                   !.label = Some(i),
                   !.percentage = Some(RoundedShare(sorted[i].total_duration, sum))]]

\* _format_bhashini_speaker_data: the list `speakers` it returns.  The label
\* of a profile is the number in 'Speaker <n>'; an exception in the loops
\* returns the initial [], one in the labelling loop the sorted list as far as
\* it was labelled.
FormatBhashiniSpeakerData(speaker_output) ==
  IF speaker_output.shape = "empty" THEN << >>
  ELSE IF speaker_output.shape # "labels" THEN << >>
  ELSE IF RaisesInLoop(speaker_output.speaker_labels) THEN << >>
  ELSE LabelAndShare(SortByDuration(
         CollectSpeakerTimes(speaker_output.speaker_labels, << >>)))

\* speaker_diarization: `range(self.max_retries)` reads an attribute that
\* __init__ never assigns, so the AttributeError is caught by the outer
\* `except Exception` before any request is sent.  With the attribute present
\* the loop asks the service up to max_retries times.
SpeakerDiarization(self, reply) ==
  IF "max_retries" \notin DOMAIN self
    THEN [raised |-> Some(APIError("diarization_processing", 500, "processing")),
          value |-> None, requests |-> 0]
  ELSE IF self.max_retries = 0
    THEN [raised |-> None, value |-> None, requests |-> 0]
  ELSE IF reply = "ok200"
    THEN LET speakers == FormatBhashiniSpeakerData(DiarPayload)
         IN  [raised |-> None,
              value |-> Some([speakers |-> speakers,
                              speaker_count |-> Len(speakers),
                              speaker_labels |-> [i \in 1..Len(speakers) |-> i],
                              status |-> "success"]),
              requests |-> 1]
  ELSE IF reply = "s500"
    THEN [raised |-> Some(APIError("diarization_failed", 500, "bhashini")),
          value |-> None, requests |-> self.max_retries]
  ELSE [raised |-> Some(APIError("diarization_network", 500, "network")),
        value |-> None, requests |-> self.max_retries]

(***************************************************************************)
(* BhashiniService.process_audio_with_speakers                             *)
(***************************************************************************)

\* standard_result.copy() followed by update({...})
Combined(standard, speakers, count, labels, status) ==
  [transcription      |-> standard.transcription,
   translation        |-> standard.translation,
   detected_language  |-> standard.detected_language,
   status             |-> standard.status,
   speakers           |-> speakers,
   speaker_count      |-> count,
   speaker_labels     |-> labels,
   diarization_status |-> status]

\* the outer `except Exception` of process_audio_with_speakers
EnhancedError(err) == APIError("enhanced_processing", 500, "processing")

\* a failed diarization dropping the transcription result with it
CombineDiarizationLosingText(standard, d) ==
  IF d.raised = None /\ d.value # None
    THEN Combined(standard, d.value[1].speakers, d.value[1].speaker_count,
                  d.value[1].speaker_labels, "completed")
    ELSE Combined([standard EXCEPT !.transcription = << >>, !.translation = << >>],
                  << >>, 0, << >>, "failed")

\* a failed diarization reported as completed
CombineDiarizationAlwaysCompleted(standard, d) ==
  IF d.raised = None /\ d.value # None
    THEN Combined(standard, d.value[1].speakers, d.value[1].speaker_count,
                  d.value[1].speaker_labels, "completed")
    ELSE Combined(standard, << >>, 0, << >>, "completed")

\* the combined result when diarization was requested: from the result of
\* speaker_diarization, or the empty one when it raised (a returned None has
\* no .get and lands in the same except branch)
CombineDiarization(standard, d) ==
  IF d.raised = None /\ d.value # None
    THEN Combined(standard, d.value[1].speakers, d.value[1].speaker_count,
                  d.value[1].speaker_labels, "completed")
    ELSE Combined(standard, << >>, 0, << >>, "failed")

\* a service that calls speaker_diarization whether or not it was asked to
EnhancedAfterTranscriptionAlwaysDiarizing ==
  /\ pc = "pa_done"
  /\ entry = "view_with_speakers"
  /\ IF pa_error # None
       THEN /\ enh_error' = Some(EnhancedError(pa_error[1]))
            /\ enh_result' = enh_result
            /\ pc' = "enh_done"
       ELSE /\ pc' = "diar_call"
            /\ UNCHANGED enhVars
  /\ UNCHANGED << pureVars, inputs, viewLangs, paVars, diarVars, geminiVars, response >>

\* lines 606-611 and 634-648: after process_audio, without diarization
EnhancedAfterTranscription ==
  /\ pc = "pa_done"
  /\ entry = "view_with_speakers"
  /\ IF pa_error # None
       THEN /\ enh_error' = Some(EnhancedError(pa_error[1]))
            /\ enh_result' = enh_result
            /\ pc' = "enh_done"
     ELSE IF include_diarization
       THEN /\ pc' = "diar_call"
            /\ UNCHANGED enhVars
     ELSE /\ enh_result' = Some(Combined(pa_result[1], << >>, 0, << >>, "disabled"))
          /\ enh_error' = enh_error
          /\ pc' = "enh_done"
  /\ UNCHANGED << pureVars, inputs, viewLangs, paVars, diarVars, geminiVars, response >>

\* lines 611-633: the diarization call and the merge of its outcome
EnhancedDiarization ==
  /\ pc = "diar_call"
  /\ LET d == SpeakerDiarization(BhashiniAttrs, diar_reply)
     IN  /\ diar_requests' = d.requests
         /\ diar_result' = d.value
         /\ diar_error' = d.raised
         /\ enh_result' = Some(CombineDiarization(pa_result[1], d))
  /\ enh_error' = enh_error
  /\ pc' = "enh_done"
  /\ UNCHANGED << pureVars, inputs, viewLangs, paVars, geminiVars, response >>

(***************************************************************************)
(* GeminiService.generate_summary_and_actions                              *)
(***************************************************************************)

NoContentSummary == << "No content available for summary" >>

InvalidFormatSummary == << "AI analysis completed but summary format was invalid" >>

SummaryNotAvailable == << "Summary not available" >>

\* a Python str value and a Python list value, as the 'summary' of a result
Str(t) == [type |-> "str", str |-> t]

ListValue == [type |-> "list", str |-> << >>]

\* JSON values, reduced to what the validation looks at.  A value of an
\* object's key is a record with its JSON type ("absent" when the key is
\* missing); a scalar carries in `str` what str() makes of it.
Absent == [type |-> "absent", str |-> ""]

JsonStr(s) == [type |-> "str", str |-> s]

JsonNumber == [type |-> "number", str |-> "42"]

JsonNull == [type |-> "null", str |-> "None"]

\* an element of actionItems: a dict with these keys, or something else
ItemDict(item, assignee, priority, dueDate) ==
  [isdict |-> TRUE, item |-> item, assignee |-> assignee, priority |-> priority,
   dueDate |-> dueDate]

NonDictItem == [isdict |-> FALSE, item |-> Absent, assignee |-> Absent,
                priority |-> Absent, dueDate |-> Absent]

\* the value of 'actionItems' or 'keyDecisions': a list, or a value of
\* another type
JsonList(items) == [type |-> "list", items |-> items]

NonList(type) == [type |-> type, items |-> << >>]

\* the value of 'summary'
SummaryValue(type, t) == [type |-> type, str |-> t]

\* a JSON object with the three keys, and a top-level value of another type
JsonObject(summary, actionItems, keyDecisions) ==
  [type |-> "object", summary |-> summary, actionItems |-> actionItems,
   keyDecisions |-> keyDecisions]

NonObject(type) ==
  [type |-> type, summary |-> SummaryValue("absent", << >>),
   actionItems |-> NonList("absent"), keyDecisions |-> NonList("absent")]

\* the chunk of an answer text that is the serialised JSON value `doc`
JsonChunk == "<json>"

\* the chunk of an answer text that is a Markdown code fence (three backticks)
Fence == "<fence>"

\* re.sub(r"<fence>(?:json)?\s*|\s*<fence>", "", text), left to right: a fence takes
\* a directly following 'json' and the whitespace after it with it; a fence
\* reached through the whitespace before it (second alternative) takes only
\* that whitespace with it
RECURSIVE RemoveFences(_)
RemoveFences(t) ==
  IF t = << >> THEN << >>
  ELSE IF Head(t) = Fence
    THEN RemoveFences(LStrip(IF Len(t) >= 2 /\ t[2] = "json"
                               THEN SubSeq(t, 3, Len(t)) ELSE Tail(t)))
  ELSE IF Head(t) = " " /\ LStrip(t) # << >> /\ Head(LStrip(t)) = Fence
    THEN RemoveFences(Tail(LStrip(t)))
  ELSE << Head(t) >> \o RemoveFences(Tail(t))

\* the chunk of an answer text that is one backtick.  A run of backticks is
\* written as the regular expression reads it, from the left: a Fence for
\* every three backticks, then a Tick for each backtick left over.
Tick == "<tick>"

\* the backticks in the run of Fence and Tick chunks t begins with, and the
\* chunks that make up the run
RECURSIVE TickRun(_)
TickRun(t) ==
  IF t = << >> THEN [ticks |-> 0, chunks |-> 0]
  ELSE IF Head(t) \in {Fence, Tick}
    THEN LET r == TickRun(Tail(t))
         IN  [ticks |-> r.ticks + (IF Head(t) = Fence THEN 3 ELSE 1),
              chunks |-> r.chunks + 1]
  ELSE [ticks |-> 0, chunks |-> 0]

\* the text re.sub returns, written in chunks again: backticks that the
\* removal of a match brought together form one run
RECURSIVE Rechunk(_)
Rechunk(t) ==
  IF t = << >> THEN << >>
  ELSE IF Head(t) \in {Fence, Tick}
    THEN LET r == TickRun(t)
         IN  [i \in 1..(r.ticks \div 3) |-> Fence]
               \o [i \in 1..(r.ticks % 3) |-> Tick]
               \o Rechunk(SubSeq(t, r.chunks + 1, Len(t)))
  ELSE << Head(t) >> \o Rechunk(Tail(t))

IsNoFence(chunk) == chunk # Fence

\* a cleaning that removes the fences and nothing with them
CleanJsonStringFencesOnly(t) == Strip(SelectSeq(t, IsNoFence))

\* GeminiService.clean_json_string
CleanJsonString(t) == Strip(Rechunk(RemoveFences(t)))

\* json.loads(cleaned_text) succeeds: the text is one JSON value, with
\* nothing but (already stripped) whitespace around it
JsonLoads(cleaned) == cleaned = << JsonChunk >>

ModelSummary == << "meeting", " ", "summary" >>

ModelActionItem ==
  [item |-> "send minutes", assignee |-> "Not specified", priority |-> "High",
   dueDate |-> "Not specified"]

ModelDecision == "ship on friday"

\* the answer text of the first candidate part, with the JSON value its
\* JsonChunk stands for
NoDoc == NonObject("none")

GeminiAnswers ==
  { [text |-> << "plain", " ", "answer" >>, doc |-> NoDoc],
    [text |-> << >>, doc |-> NoDoc],
    [text |-> << JsonChunk >>, doc |-> NonObject("array")],
    [text |-> << JsonChunk >>,
     doc |-> JsonObject(SummaryValue("absent", << >>), NonList("absent"), NonList("absent"))],
    [text |-> << JsonChunk >>,
     doc |-> JsonObject(SummaryValue("str", ModelSummary),
                        JsonList(<< ItemDict(JsonStr("send minutes"), Absent,
                                             JsonStr("High"), Absent) >>),
                        JsonList(<< JsonStr(ModelDecision) >>))] }

NoAnswer == [text |-> << >>, doc |-> NoDoc]

\* what the requests.post of generate_summary_and_actions can end in:
\*   neterr       - requests raises (timeout, connection failure)
\*   http         - a status other than 200
\*   notjson      - 200, body not parsable by response.json()
\*   nocandidates - 200, no 'candidates' or an empty list
\*   malformed    - 200, candidate without 'content' or 'parts'
\*   emptyparts   - 200, 'parts' is []
\*   text         - 200, a candidate carrying an answer text
GeminiReplies ==
  { [kind |-> k, status |-> 200, answer |-> NoAnswer] :
      k \in {"notjson", "nocandidates", "malformed", "emptyparts"} }
  \cup { [kind |-> "neterr", status |-> 0, answer |-> NoAnswer] }
  \cup { [kind |-> "http", status |-> s, answer |-> NoAnswer] : s \in {429, 503} }
  \cup { [kind |-> "text", status |-> 200, answer |-> a] : a \in GeminiAnswers }

\* str(item.get(key, default))
StrOf(value, default) == IF value.type = "absent" THEN default ELSE value.str

\* lines 802-811: the validated action items
RECURSIVE ValidatedActionItems(_)
ValidatedActionItems(items) ==
  IF items = << >> THEN << >>
  ELSE IF Head(items).isdict
    THEN << [item     |-> StrOf(Head(items).item, "No description"),
             assignee |-> StrOf(Head(items).assignee, "Not specified"),
             priority |-> StrOf(Head(items).priority, "Medium"),
             dueDate  |-> StrOf(Head(items).dueDate, "Not specified")] >>
           \o ValidatedActionItems(Tail(items))
  ELSE ValidatedActionItems(Tail(items))

\* lines 813-817: the validated key decisions
RECURSIVE ValidatedKeyDecisions(_)
ValidatedKeyDecisions(decisions) ==
  IF decisions = << >> THEN << >>
  ELSE IF Head(decisions).type = "str"
    THEN << Head(decisions).str >> \o ValidatedKeyDecisions(Tail(decisions))
  ELSE ValidatedKeyDecisions(Tail(decisions))

\* lines 797-828 raise something other than JSONDecodeError: .get on a value
\* that is no dict, iteration over null or a number, len() of null or a number
ValidationRaises(doc) ==
  \/ doc.type # "object"
  \/ doc.actionItems.type \in {"null", "number"}
  \/ doc.keyDecisions.type \in {"null", "number"}
  \/ doc.summary.type \in {"null", "number"}

\* lines 798 and 825: the summary is passed on as it was parsed
ParsedSummary(summary) ==
  IF summary.type = "absent" THEN Str(SummaryNotAvailable)
  ELSE IF summary.type = "str" THEN Str(summary.str)
  ELSE ListValue

\* a fallback that returns the cleaned text instead of the raw one
ParseAnswerCleanedFallback(answer) ==
  IF ~JsonLoads(CleanJsonString(answer.text))
    THEN [raised |-> None,
          value |-> Some([summary |-> IF Truthy(answer.text)
                                        THEN Str(CleanJsonString(answer.text))
                                        ELSE Str(InvalidFormatSummary),
                          actionItems |-> << >>,
                          keyDecisions |-> << >>])]
  ELSE IF ValidationRaises(answer.doc)
    THEN [raised |-> Some(APIError("analysis_failed", 500, "gemini")), value |-> None]
  ELSE [raised |-> None,
        value |-> Some([summary |-> ParsedSummary(answer.doc.summary),
                        actionItems |-> ValidatedActionItems(answer.doc.actionItems.items),
                        keyDecisions |-> ValidatedKeyDecisions(answer.doc.keyDecisions.items)])]

\* lines 793-839: parsing of the answer text.  A str or a dict given as
\* actionItems is iterated (characters, keys) and yields no dict, like [].
ParseAnswer(answer) ==
  IF ~JsonLoads(CleanJsonString(answer.text))
    THEN [raised |-> None,
          value |-> Some([summary |-> IF Truthy(answer.text) THEN Str(answer.text)
                                      ELSE Str(InvalidFormatSummary),
                          actionItems |-> << >>,
                          keyDecisions |-> << >>])]
  ELSE IF ValidationRaises(answer.doc)
    THEN [raised |-> Some(APIError("analysis_failed", 500, "gemini")), value |-> None]
  ELSE [raised |-> None,
        value |-> Some([summary |-> ParsedSummary(answer.doc.summary),
                        actionItems |-> ValidatedActionItems(answer.doc.actionItems.items),
                        keyDecisions |-> ValidatedKeyDecisions(answer.doc.keyDecisions.items)])]

\* a short-circuit that tests `not text` only, without the strip
GenerateSummaryAndActionsNoStrip(text, reply) ==
  IF ~Truthy(text)
    THEN [raised |-> None,
          value |-> Some([summary |-> Str(NoContentSummary), actionItems |-> << >>,
                          keyDecisions |-> << >>]),
          requests |-> 0]
  ELSE IF reply.kind = "http"
    THEN [raised |-> Some(APIError("gemini_request_failed", reply.status, "gemini")),
          value |-> None, requests |-> 1]
  ELSE IF reply.kind = "nocandidates"
    THEN [raised |-> Some(APIError("no_response", 500, "gemini")),
          value |-> None, requests |-> 1]
  ELSE IF reply.kind = "malformed"
    THEN [raised |-> Some(APIError("invalid_response", 500, "gemini")),
          value |-> None, requests |-> 1]
  ELSE IF reply.kind \in {"neterr", "notjson", "emptyparts"}
    THEN [raised |-> Some(APIError("analysis_failed", 500, "gemini")),
          value |-> None, requests |-> 1]
  ELSE LET p == ParseAnswer(reply.answer)
       IN  [raised |-> p.raised, value |-> p.value, requests |-> 1]

\* generate_summary_and_actions(text, pre_meeting_notes) when the service
\* answers `reply`: the returned dict or the raised APIError, and the number
\* of requests sent
GenerateSummaryAndActions(text, reply) ==
  IF IsBlank(text)
    THEN [raised |-> None,
          value |-> Some([summary |-> Str(NoContentSummary), actionItems |-> << >>,
                          keyDecisions |-> << >>]),
          requests |-> 0]
  ELSE IF reply.kind = "http"
    THEN [raised |-> Some(APIError("gemini_request_failed", reply.status, "gemini")),
          value |-> None, requests |-> 1]
  ELSE IF reply.kind = "nocandidates"
    THEN [raised |-> Some(APIError("no_response", 500, "gemini")),
          value |-> None, requests |-> 1]
  ELSE IF reply.kind = "malformed"
    THEN [raised |-> Some(APIError("invalid_response", 500, "gemini")),
          value |-> None, requests |-> 1]
  ELSE IF reply.kind \in {"neterr", "notjson", "emptyparts"}
    THEN [raised |-> Some(APIError("analysis_failed", 500, "gemini")),
          value |-> None, requests |-> 1]
  ELSE LET p == ParseAnswer(reply.answer)
       IN  [raised |-> p.raised, value |-> p.value, requests |-> 1]

(***************************************************************************)
(* views.py: from the service result to the response                       *)
(***************************************************************************)

\* create_error_response
CreateErrorResponse(err) ==
  [success |-> FALSE, status |-> err.status_code, error |-> err.message,
   service |-> err.service, data |-> None]

\* create_success_response
CreateSuccessResponse(data) ==
  [success |-> TRUE, status |-> 200, error |-> "", service |-> "", data |-> Some(data)]

FallbackContent == << "Audio processing completed but no transcript was generated." >>

\* views.py:183 and 374: `translation or transcript`
TranslationOrTranscript(transcript, translation) ==
  IF Truthy(translation) THEN translation ELSE transcript

\* views.py:159-162: an empty translation is replaced by the transcript
Backfill(transcript, translation) ==
  IF ~Truthy(translation) /\ Truthy(transcript) THEN transcript ELSE translation

\* the str values of the dict process_audio returns, in insertion order
ResultValues(result) ==
  << result.transcription, result.translation,
     << result.detected_language >>, << result.status >> >>

\* views.py:171-177: the loop over bhashini_result.items()
RECURSIVE ScavengeLoop(_, _, _)
ScavengeLoop(values, transcript, translation) ==
  IF values = << >> THEN [transcript |-> transcript, translation |-> translation]
  ELSE IF Len(Strip(Head(values))) > 0
    THEN ScavengeLoop(Tail(values),
                      IF ~Truthy(transcript) THEN Head(values) ELSE transcript,
                      IF ~Truthy(translation) THEN Head(values) ELSE translation)
  ELSE ScavengeLoop(Tail(values), transcript, translation)

\* views.py:138-177: transcript and translation of views.process_audio
ExtractTexts(result) ==
  LET transcript == result.transcription
      translation == Backfill(transcript, result.translation)
  IN  IF ~Truthy(transcript) /\ ~Truthy(translation)
        THEN ScavengeLoop(ResultValues(result), transcript, translation)
        ELSE [transcript |-> transcript, translation |-> translation]

\* views.py:183-197: the text views.process_audio gives the summarizer
ContentForAnalysis(transcript, translation, notes) ==
  LET content == TranslationOrTranscript(transcript, translation)
  IN  IF IsBlank(content)
        THEN IF Truthy(notes) /\ Truthy(Strip(notes))
               THEN << "Pre-meeting", " ", "notes:", " " >> \o notes
               ELSE FallbackContent
        ELSE content

RECURSIVE SpeakerLines(_, _)
SpeakerLines(speakers, i) ==
  IF i > Len(speakers) THEN << >>
  ELSE << "-", " ", speakers[i].speaker_id, "\n" >> \o SpeakerLines(speakers, i + 1)

\* a breakdown appended as soon as one profile exists
EnhancedContentAnySpeaker(transcript, translation, speakers, speaker_count) ==
  LET content == TranslationOrTranscript(transcript, translation)
  IN  IF Truthy(speakers)
        THEN content \o << "\n", "Speaker", " ", "Analysis:", "\n" >> \o SpeakerLines(speakers, 1)
        ELSE content

\* views.py:374-379: the text views.process_audio_with_speakers gives the summarizer
EnhancedContent(transcript, translation, speakers, speaker_count) ==
  LET content == TranslationOrTranscript(transcript, translation)
  IN  IF Truthy(speakers) /\ speaker_count > 1
        THEN content \o << "\n", "Speaker", " ", "Analysis:", "\n" >> \o SpeakerLines(speakers, 1)
        ELSE content

\* views.process_audio from the return of the service call to the response
ViewProcessAudioFinish ==
  /\ pc = "pa_done"
  /\ entry = "view_process_audio"
  /\ IF pa_error # None
       THEN /\ response' = Some(CreateErrorResponse(pa_error[1]))
            /\ UNCHANGED geminiVars
       ELSE \E reply \in GeminiReplies :
              LET texts == ExtractTexts(pa_result[1])
                  content == ContentForAnalysis(texts.transcript, texts.translation,
                                                pre_meeting_notes)
                  g == GenerateSummaryAndActions(content, reply)
              IN  /\ analysis_input' = Some(content)
                  /\ gemini_reply' = IF g.requests > 0 THEN Some(reply) ELSE None
                  /\ gemini_requests' = g.requests
                  /\ analysis' = g.value
                  /\ response' =
                       IF g.raised # None
                         THEN Some(CreateErrorResponse(g.raised[1]))
                         ELSE Some(CreateSuccessResponse(
                                [transcript |-> texts.transcript,
                                 translation |-> texts.translation,
                                 analysis |-> g.value[1],
                                 sourceLanguage |-> view_source[1],
                                 targetLanguage |-> view_target[1]]))
  /\ pc' = "done"
  /\ UNCHANGED << pureVars, inputs, viewLangs, paVars, diarVars, enhVars >>

\* views.process_audio_with_speakers from the return of the service call to
\* the response
ViewWithSpeakersFinish ==
  /\ pc = "enh_done"
  /\ IF enh_error # None
       THEN /\ response' = Some(CreateErrorResponse(enh_error[1]))
            /\ UNCHANGED geminiVars
       ELSE \E reply \in GeminiReplies :
              LET e == enh_result[1]
                  content == EnhancedContent(e.transcription, e.translation,
                                             e.speakers, e.speaker_count)
                  g == GenerateSummaryAndActions(content, reply)
              IN  /\ analysis_input' = Some(content)
                  /\ gemini_reply' = IF g.requests > 0 THEN Some(reply) ELSE None
                  /\ gemini_requests' = g.requests
                  /\ analysis' = g.value
                  /\ response' =
                       IF g.raised # None
                         THEN Some(CreateErrorResponse(g.raised[1]))
                         ELSE Some(CreateSuccessResponse(
                                [transcript |-> e.transcription,
                                 translation |-> e.translation,
                                 analysis |-> g.value[1],
                                 speakers |-> e.speakers,
                                 speakerCount |-> e.speaker_count,
                                 speakerLabels |-> e.speaker_labels,
                                 diarizationStatus |-> e.diarization_status,
                                 sourceLanguage |-> view_source[1],
                                 targetLanguage |-> view_target[1]]))
  /\ pc' = "done"
  /\ UNCHANGED << pureVars, inputs, viewLangs, paVars, diarVars, enhVars >>

Next ==
  \/ ViewParse
  \/ ServiceCall
  \/ ProcessAudioBegin
  \/ Attempt
  \/ LoopFallThrough
  \/ ServiceReturn
  \/ EnhancedAfterTranscription
  \/ EnhancedDiarization
  \/ ViewProcessAudioFinish
  \/ ViewWithSpeakersFinish

Spec == Init /\ [][Next]_vars

(***************************************************************************)
(* Properties                                                              *)
(***************************************************************************)

\* process_audio has returned or raised
PaFinished == pa_result # None \/ pa_error # None

ServerError == [kind |-> "http", status |-> 500, body |-> NoBody]

AllServerErrors == \A i \in 1..Len(outcomes) : outcomes[i] = ServerError

\* C1: with the default max_retries = 3 and HTTP 500 on every attempt,
\* process_audio sends exactly 3 requests, sleeps 1 then 2 seconds (3 in
\* total, none after the last attempt) and raises an APIError of status 500.
C1_ServerErrorsExhaust ==
  (PaFinished /\ max_retries = DefaultMaxRetries /\ outcomes # << >> /\ AllServerErrors)
    => /\ requests = 3
       /\ Len(outcomes) = 3
       /\ sleeps = << 1, 2 >>
       /\ SumSeq(sleeps) = 3
       /\ pa_result = None
       /\ pa_error # None
       /\ pa_error[1].status_code = 500

C1_Witness ==
  /\ pc = "pa_done"
  /\ max_retries = DefaultMaxRetries
  /\ outcomes = << ServerError, ServerError, ServerError >>
  /\ pa_error # None

FatalStatus(o) == o.kind = "http" /\ o.status \notin {200, 500}

\* C2: a response with status 401, 400 or any status other than 200 and 500
\* ends process_audio on the attempt it arrives: it is the last request, no
\* sleep follows it, and the raised APIError carries that status.
C2_FatalStatusEndsCall ==
  \A i \in 1..Len(outcomes) :
    FatalStatus(outcomes[i])
      => /\ i = Len(outcomes)
         /\ requests = i
         /\ Len(sleeps) = i - 1
         /\ pc # "pa_loop"
         /\ pa_result = None
         /\ pa_error # None
         /\ pa_error[1].status_code = outcomes[i].status

C2_Witness ==
  /\ pc = "pa_done"
  /\ Len(outcomes) = 2
  /\ outcomes[1] = ServerError
  /\ outcomes[2] = [kind |-> "http", status |-> 403, body |-> NoBody]
  /\ pa_error # None
  /\ pa_error[1].status_code = 403

\* C3: a timeout or connection failure on an attempt that is not the last is
\* followed by a sleep of 2^attempt seconds and another attempt; on the last
\* attempt a timeout raises status 408 and a connection failure status 503.
C3_TimeoutAndConnection ==
  \A i \in 1..Len(outcomes) :
    outcomes[i].kind \in {"timeout", "connerr"}
      => IF i < max_retries
           THEN /\ Len(sleeps) >= i
                /\ sleeps[i] = 2 ^ (i - 1)
                /\ \/ Len(outcomes) > i
                   \/ pc = "pa_loop" /\ attempt = i /\ attempt < max_retries /\ ~PaFinished
           ELSE /\ i = Len(outcomes)
                /\ Len(sleeps) = i - 1
                /\ pc # "pa_loop"
                /\ pa_result = None
                /\ pa_error # None
                /\ pa_error[1].status_code =
                     (IF outcomes[i].kind = "timeout" THEN 408 ELSE 503)

C3_Witness ==
  /\ pc = "pa_done"
  /\ max_retries = 3
  /\ Len(outcomes) = 3
  /\ outcomes[1].kind = "timeout"
  /\ outcomes[2].kind = "connerr"
  /\ outcomes[3].kind = "connerr"
  /\ sleeps = << 1, 2 >>
  /\ pa_error # None
  /\ pa_error[1].status_code = 503

\* C4: on both endpoints a fatal transcription failure is answered with an
\* error response whose HTTP status is the status of the upstream error
\* (401, 400, 408, 503 or 500).
C4_ErrorStatusSurfaced ==
  (entry \in Views /\ pc = "done" /\ pa_error # None
     /\ pa_error[1].status_code \in {401, 400, 408, 503, 500})
    => /\ response # None
       /\ ~response[1].success
       /\ response[1].status = pa_error[1].status_code

GeminiFailed(reply) ==
  \/ reply.kind \in {"http", "neterr", "notjson", "nocandidates", "malformed", "emptyparts"}
  \/ reply.kind = "text" /\ (reply.answer.text # << JsonChunk >>
                             \/ reply.answer.doc.type # "object")

\* C5: whatever goes wrong in the generative service, the summarizer returns
\* an AnalysisResult with empty actionItems and keyDecisions, and a request
\* whose transcription succeeded is answered with a success response.
C5_SummarizationNeverFails ==
  (entry \in Views /\ pc = "done" /\ pa_result # None
     /\ gemini_reply # None /\ GeminiFailed(gemini_reply[1]))
    => /\ analysis # None
       /\ analysis[1].summary.type = "str"
       /\ Truthy(analysis[1].summary.str)
       /\ analysis[1].actionItems = << >>
       /\ analysis[1].keyDecisions = << >>
       /\ response # None
       /\ response[1].success

\* process_audio_with_speakers ran its diarization branch and the call failed
DiarizationFailed ==
  /\ entry = "view_with_speakers"
  /\ pc \in {"enh_done", "done"}
  /\ include_diarization
  /\ pa_result # None
  /\ diar_result = None

\* C6: when transcription succeeded and the diarization call fails,
\* process_audio_with_speakers still returns, with no speakers, status
\* 'failed', and the four fields of process_audio unchanged.
C6_DiarizationFailureAbsorbed ==
  DiarizationFailed
    => /\ enh_error = None
       /\ enh_result # None
       /\ enh_result[1].speakers = << >>
       /\ enh_result[1].speaker_count = 0
       /\ enh_result[1].speaker_labels = << >>
       /\ enh_result[1].diarization_status = "failed"
       /\ enh_result[1].transcription = pa_result[1].transcription
       /\ enh_result[1].translation = pa_result[1].translation
       /\ enh_result[1].detected_language = pa_result[1].detected_language
       /\ enh_result[1].status = pa_result[1].status

C6_Witness ==
  /\ DiarizationFailed
  /\ diar_error # None
  /\ diar_reply = "connerr"
  /\ pa_result[1].transcription = << "namaste" >>
  /\ enh_result # None

\* C7: every result of process_audio_with_speakers has diarization_status in
\* {completed, failed, disabled}: disabled exactly when diarization was not
\* requested, completed exactly when the diarization call returned a result,
\* failed exactly when it was requested and raised; without a completed
\* diarization there are no speakers.  The view reports the same status.
C7_DiarizationStatus ==
  enh_result # None
    => LET e == enh_result[1]
       IN  /\ e.diarization_status \in {"completed", "failed", "disabled"}
           /\ (e.diarization_status = "disabled") <=> ~include_diarization
           /\ (e.diarization_status = "completed") <=> (diar_result # None)
           /\ (e.diarization_status = "failed") <=> (include_diarization /\ diar_error # None)
           /\ e.diarization_status \in {"disabled", "failed"}
                => (e.speakers = << >> /\ e.speaker_count = 0)
           /\ (response # None /\ response[1].success)
                => /\ response[1].data[1].diarizationStatus = e.diarization_status
                   /\ response[1].data[1].speakers = e.speakers
                   /\ response[1].data[1].speakerCount = e.speaker_count

C7_Witness ==
  /\ pc = "done"
  /\ entry = "view_with_speakers"
  /\ ~include_diarization
  /\ response # None
  /\ response[1].success
  /\ response[1].data[1].diarizationStatus = "disabled"
  /\ response[1].data[1].speakerCount = 0
  /\ Truthy(response[1].data[1].transcript)

\* C8: when the diarization service answers 200 with a speaker-diarization
\* output, speaker_diarization sends its request and returns status
\* 'success', and process_audio_with_speakers reaches 'completed'.
C8_DiarizationCompletes ==
  (entry = "view_with_speakers" /\ pc \in {"enh_done", "done"} /\ include_diarization
     /\ pa_result # None /\ diar_reply = "ok200")
    => /\ diar_requests = 1
       /\ diar_result # None
       /\ diar_result[1].status = "success"
       /\ enh_result # None
       /\ enh_result[1].diarization_status = "completed"

\* C9: on both endpoints the text passed to generate_summary_and_actions is
\* never empty or blank.
C9_AnalysisInputNotBlank ==
  (entry \in Views /\ analysis_input # None) => ~IsBlank(analysis_input[1])

\* C10: in views.process_audio the analysis input is the translation if it
\* has content, else the transcript; when the service returned an empty
\* transcript and an empty translation it is built from the pre-meeting
\* notes if they are not blank and is the fixed placeholder otherwise.
C10_AnalysisInputChoice ==
  (entry = "view_process_audio" /\ analysis_input # None)
    => LET r == pa_result[1]
       IN  /\ ~IsBlank(r.translation) => analysis_input[1] = r.translation
           /\ (r.translation = << >> /\ ~IsBlank(r.transcription))
                => analysis_input[1] = r.transcription
           /\ (r.translation = << >> /\ r.transcription = << >>)
                => analysis_input[1] =
                     (IF ~IsBlank(pre_meeting_notes)
                        THEN << "Pre-meeting", " ", "notes:", " " >> \o pre_meeting_notes
                        ELSE FallbackContent)

\* the final response of a view is a success response
Succeeded == entry \in Views /\ pc = "done" /\ response # None /\ response[1].success

\* C11: on both endpoints, when the source language equals the target
\* language, the transcript is not empty and the service returned an empty
\* translation, the translation in the response equals the transcript.
C11_SameLanguageBackfill ==
  (Succeeded /\ source_lang = target_lang
     /\ pa_result[1].transcription # << >> /\ pa_result[1].translation = << >>)
    => response[1].data[1].translation = pa_result[1].transcription

\* C12: in views.process_audio, when the translation stage gave no text and
\* the transcript is not empty, the translation in the response is empty if
\* the source language differs from the target language.
C12_NoBackfillAcrossLanguages ==
  (Succeeded /\ entry = "view_process_audio"
     /\ pa_result[1].transcription # << >> /\ pa_result[1].translation = << >>
     /\ source_lang # target_lang)
    => response[1].data[1].translation = << >>

(***************************************************************************)
(* The requests again, over the language codes a client can send: a        *)
(* supported code, a region-tagged one, an upper-case one, an unsupported  *)
(* one and the empty string.  The other inputs are narrowed.               *)
(***************************************************************************)

WideLangInputs == { << "hi" >>, << "en", "US" >>, << "EN" >>, << "fr" >>, << "" >> }

InitLang ==
  /\ entry \in Entries
  /\ source_in \in WideLangInputs
  /\ target_in \in WideLangInputs
  /\ pre_meeting_notes = << >>
  /\ include_diarization = (entry = "view_with_speakers")
  /\ max_retries \in (IF entry \in Views THEN {DefaultMaxRetries} ELSE {0, DefaultMaxRetries})
  /\ audio_ok \in BOOLEAN
  /\ diar_reply = "ok200"
  /\ aud_input = Some(DefaultAudio)
  /\ Fresh
  /\ PureIdle

SpecLang == InitLang /\ [][Next]_vars

\* the code a client's language input stands for: its base code in lower
\* case if that is Hindi or English, else the default of the direction
ExpectedCode(code, default) ==
  CASE Head(code) \in {"hi", "HI"} -> "hi"
    [] Head(code) \in {"en", "EN"} -> "en"
    [] OTHER -> default

\* process_audio got past its language normalisation
Normalized == pc \notin {"start", "pa_begin"}

\* C13: whatever the source and target inputs are, the codes process_audio
\* places in its requests are the lower-case base codes 'hi' or 'en', an
\* unsupported or empty source being replaced by 'hi' and such a target by
\* 'en'; the language input never makes the call fail before its first
\* request.
C13_LanguageCodesNormalized ==
  Normalized =>
    /\ source_lang \in {"hi", "en"}
    /\ target_lang \in {"hi", "en"}
    /\ source_lang = ExpectedCode(source_in, "hi")
    /\ target_lang = ExpectedCode(target_in, "en")
    /\ (pa_error # None /\ requests = 0) => (~audio_ok \/ max_retries = 0)

C13_Witness ==
  /\ requests > 0
  /\ source_in = << "fr" >> /\ source_lang = "hi"
  /\ target_in = << "" >> /\ target_lang = "en"

(***************************************************************************)
(* _format_bhashini_speaker_data as a function of its argument             *)
(***************************************************************************)

MaxLabelEntries == 2

MaxSegments == 1

SpeakerIds == {"SPEAKER_00", "SPEAKER_01"}

Durations == {0, 1, 2}

\* the sequences over S of length at most n
SeqUpTo(S, n) == UNION { [1..k -> S] : k \in 0..n }

\* one segment per duration, the longest one not at the start of the audio
SegmentInputs ==
  { IF d = 2 THEN SegmentAt(3, d) ELSE Segment(d) : d \in Durations } \cup { BadSegment }

LabelEntryInputs ==
  { LabelEntry(id, sg) : id \in SpeakerIds, sg \in SeqUpTo(SegmentInputs, MaxSegments) }
    \cup { [isdict |-> TRUE, speaker_id |-> id, islist |-> FALSE, segments |-> << >>] :
             id \in SpeakerIds }
    \cup { [isdict |-> FALSE, speaker_id |-> "", islist |-> FALSE, segments |-> << >>] }

SpeakerOutputs ==
  { [shape |-> sh, speaker_labels |-> << >>] :
      sh \in {"empty", "notdict", "nolabels", "labels_notlist"} }
    \cup { [shape |-> "labels", speaker_labels |-> ls] :
             ls \in SeqUpTo(LabelEntryInputs, MaxLabelEntries) }

\* no request is being served
NoRequest ==
  /\ entry = "none"
  /\ source_in = << "hi" >>
  /\ target_in = << "en" >>
  /\ pre_meeting_notes = << >>
  /\ include_diarization = FALSE
  /\ max_retries = DefaultMaxRetries
  /\ audio_ok = TRUE
  /\ diar_reply = "ok200"
  /\ aud_input = None
  /\ Fresh

InitFormat ==
  /\ NoRequest
  /\ spk_payload \in { Some(p) : p \in SpeakerOutputs }
  /\ spk_return = None
  /\ gem_text = None
  /\ gem_answer = None
  /\ gem_return = None

\* the call self._format_bhashini_speaker_data(speaker_output)
FormatSpeakers ==
  /\ spk_payload # None
  /\ spk_return = None
  /\ spk_return' = Some(FormatBhashiniSpeakerData(spk_payload[1]))
  /\ UNCHANGED << inputs, pc, viewLangs, paVars, diarVars, enhVars, geminiVars, response,
                  spk_payload, gem_text, gem_answer, gem_return,
                  aud_input, aud_return, aud_content, singletonVars >>

NextFormat == FormatSpeakers

SpecFormat == InitFormat /\ [][NextFormat]_vars

\* the speaker ids the loops of the formatter create a profile for
ProfiledIds(speaker_output) ==
  { speaker_output.speaker_labels[i].speaker_id :
      i \in { j \in 1..Len(speaker_output.speaker_labels) :
                speaker_output.speaker_labels[j].isdict } }

\* C14: for every payload the returned list is in non-increasing order of
\* total_duration and the profile at position i carries the label
\* 'Speaker i'.
C14_SortedAndLabelled ==
  spk_return # None =>
    LET sp == spk_return[1]
    IN  /\ \A i \in 1..Len(sp) : \A j \in 1..Len(sp) :
             i < j => sp[i].total_duration >= sp[j].total_duration
        /\ \A i \in 1..Len(sp) : sp[i].label = Some(i)

\* C15: when the total_duration of the profiles sums to 0, every profile is
\* returned with its positional label and the percentage 0.
C15_ZeroSumPercentages ==
  (spk_return # None /\ spk_payload[1].shape = "labels"
     /\ ~RaisesInLoop(spk_payload[1].speaker_labels)
     /\ \A i \in 1..Len(spk_payload[1].speaker_labels) :
          LET e == spk_payload[1].speaker_labels[i]
          IN  (e.isdict /\ e.islist) =>
                \A j \in 1..Len(e.segments) : e.segments[j].duration = 0)
    => LET sp == spk_return[1]
       IN  /\ { sp[i].speaker_id : i \in 1..Len(sp) } = ProfiledIds(spk_payload[1])
           /\ \A i \in 1..Len(sp) :
                sp[i].label = Some(i) /\ sp[i].percentage = Some(0)

\* C16: for every payload each returned profile has a percentage between 0
\* and 100 that is its total_duration over the sum of all of them times 100,
\* rounded to one decimal, and the percentages sum to at most 100 up to that
\* rounding.  Percentages are in tenths.
C16_PercentageBounds ==
  spk_return # None =>
    LET sp == spk_return[1]
        sum == SumSeq([i \in 1..Len(sp) |-> sp[i].total_duration])
    IN  /\ \A i \in 1..Len(sp) :
             /\ sp[i].percentage # None
             /\ sp[i].percentage[1] \in 0..1000
             /\ 2 * (sp[i].percentage[1] * sum - 1000 * sp[i].total_duration) <= sum
             /\ 2 * (1000 * sp[i].total_duration - sp[i].percentage[1] * sum) <= sum
        /\ (\A i \in 1..Len(sp) : sp[i].percentage # None)
             => SumSeq([i \in 1..Len(sp) |-> sp[i].percentage[1]]) <= 1000 + Len(sp)

\* C17: when the text given to generate_summary_and_actions is empty or
\* only whitespace, the result is the placeholder summary with empty
\* actionItems and keyDecisions, and no request goes to the generative
\* service.
C17_BlankTextShortCircuit ==
  (analysis_input # None
     /\ \A i \in 1..Len(analysis_input[1]) : analysis_input[1][i] = " ")
    => /\ gemini_requests = 0
       /\ gemini_reply = None
       /\ analysis = Some([summary |-> Str(<< "No content available for summary" >>),
                           actionItems |-> << >>,
                           keyDecisions |-> << >>])

C17_Witness ==
  /\ analysis_input = Some(<< " " >>)
  /\ analysis # None
  /\ gemini_requests = 0

(***************************************************************************)
(* generate_summary_and_actions as a function of its text and of the       *)
(* answer of the generative service                                        *)
(***************************************************************************)

MaxItems == 1

MaxDecisions == 1

SummaryValues ==
  { SummaryValue("absent", << >>), SummaryValue("str", ModelSummary),
    SummaryValue("str", << >>), SummaryValue("null", << >>),
    SummaryValue("number", << >>), SummaryValue("list", << >>) }

PriorityValues ==
  { Absent, JsonStr("High"), JsonStr("Medium"), JsonStr("Low"), JsonStr("Urgent"),
    JsonNumber }

ItemInputs ==
  { ItemDict(i, a, p, Absent) :
      i \in {Absent, JsonStr("send minutes")}, a \in {Absent, JsonNull},
      p \in PriorityValues }
    \cup { NonDictItem }

DecisionInputs == { JsonStr(ModelDecision), JsonNumber }

ActionItemsValues ==
  { NonList(t) : t \in {"absent", "null", "number", "str"} }
    \cup { JsonList(q) : q \in SeqUpTo(ItemInputs, MaxItems) }

KeyDecisionsValues ==
  { NonList(t) : t \in {"absent", "null", "number"} }
    \cup { JsonList(q) : q \in SeqUpTo(DecisionInputs, MaxDecisions) }

JsonDocs ==
  { JsonObject(s, a, k) :
      s \in SummaryValues, a \in ActionItemsValues, k \in KeyDecisionsValues }
    \cup { NonObject(t) : t \in {"array", "string", "number", "null"} }

\* answer texts around a JSON value: fenced with and without the tag, fenced
\* after leading whitespace, after a line of prose
WrappedTexts ==
  { << Fence, "json", " ", JsonChunk, " ", Fence >>,
    << Fence, " ", JsonChunk, " ", Fence >>,
    << " ", Fence, "json", " ", JsonChunk, " ", Fence >>,
    << "Here", " ", JsonChunk >> }

\* answer texts without a JSON value
PlainTexts ==
  { << >>, << " " >>, << "plain", " ", "answer" >>,
    << Fence, "json", " ", "oops", " ", Fence >>, << Fence, Fence >>,
    << Tick, Tick, " ", Fence, Tick >>, << Tick, "x", Tick >> }

WideGeminiAnswers ==
  { [text |-> << JsonChunk >>, doc |-> d] : d \in JsonDocs }
    \cup { [text |-> t, doc |-> a.doc] :
             t \in WrappedTexts, a \in { b \in GeminiAnswers : b.text = << JsonChunk >> } }
    \cup { [text |-> t, doc |-> NoDoc] : t \in PlainTexts }

WideGeminiReplies ==
  { r \in GeminiReplies : r.kind # "text" }
    \cup { [kind |-> "text", status |-> 200, answer |-> a] : a \in WideGeminiAnswers }

TextInputs == { << >>, << " " >>, << "we", " ", "met" >> }

InitGemini ==
  /\ NoRequest
  /\ gem_text \in { Some(t) : t \in TextInputs }
  /\ gem_answer \in { Some(r) : r \in IF IsBlank(gem_text[1]) THEN GeminiReplies
                                      ELSE WideGeminiReplies }
  /\ gem_return = None
  /\ spk_payload = None
  /\ spk_return = None

\* the call gemini_service.generate_summary_and_actions(text)
Summarize ==
  /\ gem_text # None
  /\ gem_return = None
  /\ gem_return' = Some(GenerateSummaryAndActions(gem_text[1], gem_answer[1]))
  /\ UNCHANGED << inputs, pc, viewLangs, paVars, diarVars, enhVars, geminiVars, response,
                  spk_payload, spk_return, gem_text, gem_answer,
                  aud_input, aud_return, aud_content, singletonVars >>

NextGemini == Summarize

SpecGemini == InitGemini /\ [][NextGemini]_vars

\* the service answered the request with a text
AnsweredWithText ==
  /\ gem_return # None
  /\ gem_return[1].requests = 1
  /\ gem_answer[1].kind = "text"

\* C18 as stated: when the answer text is not parsable as JSON after fence
\* stripping, the raw answer text is returned as the summary, with empty
\* actionItems and keyDecisions, and nothing is raised.
C18_RawTextFallback ==
  (AnsweredWithText /\ ~JsonLoads(CleanJsonString(gem_answer[1].answer.text)))
    => /\ gem_return[1].raised = None
       /\ gem_return[1].value =
            Some([summary |-> Str(gem_answer[1].answer.text),
                  actionItems |-> << >>, keyDecisions |-> << >>])

\* C18, amended: when the answer text is not parsable as JSON after fence
\* stripping, nothing is raised, actionItems and keyDecisions are empty and
\* the summary is the raw answer text, fences included, or the fixed
\* placeholder when the answer text is the empty string.
C18_RawTextOrPlaceholder ==
  (AnsweredWithText /\ ~JsonLoads(CleanJsonString(gem_answer[1].answer.text)))
    => /\ gem_return[1].raised = None
       /\ gem_return[1].value =
            Some([summary |->
                    IF gem_answer[1].answer.text = << >>
                      THEN Str(<< "AI analysis completed but summary format was invalid" >>)
                      ELSE Str(gem_answer[1].answer.text),
                  actionItems |-> << >>, keyDecisions |-> << >>])

C18_Witness ==
  /\ AnsweredWithText
  /\ gem_answer[1].answer.text = << Fence, "json", " ", "oops", " ", Fence >>
  /\ gem_return[1].value # None
  /\ gem_return[1].value[1].summary = Str(<< Fence, "json", " ", "oops", " ", Fence >>)

\* C19: whatever JSON value the answer text holds, the call returns a result
\* whose summary is a string, whose actionItems have a priority among High,
\* Medium and Low, and whose keyDecisions are strings.
C19_AnalysisResultShape ==
  (AnsweredWithText /\ JsonLoads(CleanJsonString(gem_answer[1].answer.text)))
    => /\ gem_return[1].raised = None
       /\ gem_return[1].value # None
       /\ gem_return[1].value[1].summary.type = "str"
       /\ \A i \in 1..Len(gem_return[1].value[1].actionItems) :
            gem_return[1].value[1].actionItems[i].priority \in {"High", "Medium", "Low"}

(***************************************************************************)
(* The requests over the audio a client can send                           *)
(***************************************************************************)

InitAudio ==
  /\ entry \in Entries
  /\ source_in = << "hi" >>
  /\ target_in = << "en" >>
  /\ pre_meeting_notes = << >>
  /\ include_diarization = (entry = "view_with_speakers")
  /\ max_retries \in (IF entry \in Views THEN {DefaultMaxRetries} ELSE {0, 1})
  /\ audio_ok = TRUE
  /\ diar_reply = "ok200"
  /\ aud_input \in (IF entry \in Views THEN { Some(DefaultAudio) }
                    ELSE { Some(a) : a \in AudioInputs })
  /\ Fresh
  /\ PureIdle

SpecAudio == InitAudio /\ [][Next]_vars

\* C20: whenever load_and_resample_audio returns samples, by the primary or
\* by the secondary path, the rate it returns is 16000, and audio that is
\* re-encoded for the request is written at the rate the payload declares.
C20_ReturnedRateIsTarget ==
  /\ (aud_return # None /\ aud_return[1].y # None) => aud_return[1].sr = Some(16000)
  /\ (aud_content # None /\ ~aud_content[1].original)
       => aud_content[1].rate = SamplingRate

\* normalisation failed: no samples came back, or encoding them raised
NormalizationFailed ==
  /\ aud_return # None
  /\ (aud_return[1].y = None \/ ~aud_input[1].encodes)

\* C21: when normalisation fails in process_audio (no samples returned, or
\* the re-encoding raises), the audioContent of the payload is the caller's
\* original base64 string and the transcription request is still made: the
\* call goes on to its first attempt whenever it is allowed one.
C21_FallbackToOriginalAudio ==
  NormalizationFailed =>
    /\ aud_content = Some(OriginalContent)
    /\ max_retries >= 1 =>
         \/ requests >= 1
         \/ pc = "pa_loop" /\ attempt = 0 /\ pa_error = None

C21_Witness ==
  /\ NormalizationFailed
  /\ ~aud_input[1].encodes
  /\ aud_return[1].y # None
  /\ aud_content = Some(OriginalContent)
  /\ requests >= 1

\* C22: on every exit path of load_and_resample_audio the temporary file it
\* created has been removed before it returns.
C22_TempFileRemoved ==
  aud_return # None => aud_return[1].temp_file # "left"

ReturnedSamples == aud_return # None /\ aud_return[1].y # None

\* C23: for every input signal, every sample the normaliser returns has a
\* magnitude of at most 1.0.
C23_MagnitudeAtMostOne ==
  ReturnedSamples =>
    \A i \in 1..Len(aud_return[1].y[1]) : Abs(aud_return[1].y[1][i]) <= 1

\* C24: for every all-zero (silent) input signal, the samples the normaliser
\* returns are all zero.
C24_SilentStaysSilent ==
  (ReturnedSamples /\ aud_input[1].signal = Silent(Len(aud_input[1].signal))) =>
    \A i \in 1..Len(aud_return[1].y[1]) : aud_return[1].y[1][i] = 0

C24_Witness ==
  /\ ReturnedSamples
  /\ aud_input[1].decode = "secondary"
  /\ aud_input[1].sr = 32000
  /\ aud_input[1].signal = Silent(MaxSamples)
  /\ Len(aud_return[1].y[1]) = MaxSamples \div 2

(***************************************************************************)
(* get_bhashini_service and get_gemini_service called from the worker      *)
(* threads of one process.  A thread can be pre-empted between any two of  *)
(* the steps of a getter: the test of the global, the construction, the    *)
(* assignment to the global, the read of the global for the return.        *)
(***************************************************************************)

InitSingleton ==
  /\ NoRequest
  /\ PureIdle

Global(c) == IF c = "bhashini" THEN _bhashini_service ELSE _gemini_service

requestVars == << inputs, pc, viewLangs, paVars, diarVars, enhVars, geminiVars, response,
                 spk_payload, spk_return, gem_text, gem_answer, gem_return,
                 aud_input, aud_return, aud_content >>

\* lines 853 / 860: `if _bhashini_service is None:` as the call begins
TestGlobal(t, c) ==
  /\ threads[t].at = "idle"
  /\ Len(returned[t]) < MaxCalls
  /\ threads' = [threads EXCEPT ![t] =
                   [at |-> IF Global(c) = None THEN "construct" ELSE "return",
                    service |-> c, instance |-> 0]]
  /\ UNCHANGED << requestVars, _bhashini_service, _gemini_service, built, returned >>

\* lines 854 / 861, right-hand side: BhashiniService() / GeminiService()
Construct(t) ==
  /\ threads[t].at = "construct"
  /\ built' = [built EXCEPT ![threads[t].service] = @ + 1]
  /\ threads' = [threads EXCEPT ![t].at = "assign",
                                ![t].instance = built[threads[t].service] + 1]
  /\ UNCHANGED << requestVars, _bhashini_service, _gemini_service, returned >>

\* lines 854 / 861: the assignment to the global
AssignGlobal(t) ==
  /\ threads[t].at = "assign"
  /\ IF threads[t].service = "bhashini"
       THEN /\ _bhashini_service' = Some(threads[t].instance)
            /\ UNCHANGED _gemini_service
       ELSE /\ _gemini_service' = Some(threads[t].instance)
            /\ UNCHANGED _bhashini_service
  /\ threads' = [threads EXCEPT ![t].at = "return"]
  /\ UNCHANGED << requestVars, built, returned >>

\* lines 855 / 862: `return _bhashini_service` reads the global again
ReturnGlobal(t) ==
  /\ threads[t].at = "return"
  /\ returned' = [returned EXCEPT ![t] =
                    Append(@, [service |-> threads[t].service,
                               instance |-> Global(threads[t].service)[1]])]
  /\ threads' = [threads EXCEPT ![t] = IdleThread]
  /\ UNCHANGED << requestVars, _bhashini_service, _gemini_service, built >>

NextSingleton ==
  \E t \in Threads :
    \/ \E c \in ServiceClasses : TestGlobal(t, c)
    \/ Construct(t)
    \/ AssignGlobal(t)
    \/ ReturnGlobal(t)

SpecSingleton == InitSingleton /\ [][NextSingleton]_vars

\* C25: each service client is constructed at most once per process, and
\* every call of get_bhashini_service (respectively get_gemini_service),
\* concurrent first calls from different requests included, returns the
\* same instance.
C25_OneInstancePerProcess ==
  /\ \A c \in ServiceClasses : built[c] <= 1
  /\ \A t1, t2 \in Threads :
       \A i \in 1..Len(returned[t1]), j \in 1..Len(returned[t2]) :
         returned[t1][i].service = returned[t2][j].service
           => returned[t1][i].instance = returned[t2][j].instance

(***************************************************************************)
(* A direct call of BhashiniService.process_audio, for every max_retries   *)
(* up to the bound, with the fairness of sequential code: a call that can  *)
(* take a step takes it (requests.post has a timeout, time.sleep returns). *)
(***************************************************************************)

InitRetry ==
  /\ entry = "service_process_audio"
  /\ source_in = << "hi" >>
  /\ target_in = << "en" >>
  /\ pre_meeting_notes = << >>
  /\ include_diarization = FALSE
  /\ max_retries \in 0..MaxRetriesBound
  /\ audio_ok \in BOOLEAN
  /\ diar_reply = "ok200"
  /\ aud_input = Some(DefaultAudio)
  /\ Fresh
  /\ PureIdle

NextRetry ==
  \/ ServiceCall
  \/ ProcessAudioBegin
  \/ Attempt
  \/ LoopFallThrough
  \/ ServiceReturn

SpecRetry == InitRetry /\ [][NextRetry]_vars /\ WF_vars(NextRetry)

RetryableOutcome(o) ==
  \/ o.kind \in {"timeout", "connerr", "exception"}
  \/ o.kind = "http" /\ o.status = 500

\* at most max_retries requests; a sleep of 2^attempt after each attempt but
\* the final one
BoundedRetries ==
  /\ requests <= max_retries
  /\ Len(sleeps) <= max_retries - 1
  /\ \A i \in 1..Len(sleeps) : sleeps[i] = 2 ^ (i - 1)
  /\ SumSeq(sleeps) <= 2 ^ (max_retries - 1) - 1
  /\ Len(sleeps) = (IF PaFinished THEN requests - 1 ELSE requests)

\* C26: for every max_retries >= 1 and every sequence of per-attempt
\* outcomes, process_audio sends at most max_retries requests, sleeps only
\* between attempts (2^attempt seconds, attempt counted from 0, never after
\* the final attempt) and terminates with a result or an APIError.
C26_BoundedRetriesAndTermination ==
  /\ [](max_retries >= 1 /\ requests >= 1 => BoundedRetries)
  /\ (pc = "pa_begin" ~> PaFinished)

C26_Witness ==
  /\ PaFinished
  /\ pa_error # None
  /\ max_retries = MaxRetriesBound
  /\ requests = max_retries
  /\ Len(sleeps) = max_retries - 1
  /\ outcomes[1].kind = "timeout"
  /\ outcomes[2] = ServerError
  /\ outcomes[3].kind = "exception"
  /\ outcomes[4].kind = "connerr"

\* the answer to request i was a 200
Answered200(i) == outcomes[i].kind = "http" /\ outcomes[i].status = 200

AbsentShapes == {"nokey", "emptylist", "nofield"}

\* C27: a 200 answer whose pipelineResponse has fewer than 2 entries (a body
\* that is not JSON included) makes process_audio fail with status 500 on
\* that attempt, without a retry even when attempts remain; a 200 answer
\* with at least 2 entries ends the loop with status 'success' and no
\* further request.
C27_TwoStagesDecide ==
  \A i \in 1..Len(outcomes) :
    Answered200(i) =>
      /\ i = Len(outcomes)
      /\ PaFinished
      /\ IF Len(PipelineOutputs(outcomes[i].body)) < 2
           THEN /\ pa_result = None
                /\ pa_error[1].status_code = 500
           ELSE /\ pa_error = None
                /\ pa_result[1].status = "success"

\* C28: for a 200 answer with at least 2 pipeline stages process_audio
\* succeeds whatever the shape of the stage outputs: the transcript is the
\* empty string when stage 0 has no 'output' key, an empty output list or no
\* 'source' field, and likewise the translation for stage 1 and 'target'.
C28_AbsentFieldsDefaultToEmpty ==
  \A i \in 1..Len(outcomes) :
    (Answered200(i) /\ Len(PipelineOutputs(outcomes[i].body)) >= 2) =>
      /\ pa_error = None
      /\ pa_result # None
      /\ outcomes[i].body.stages[1].shape \in AbsentShapes
           => pa_result[1].transcription = << >>
      /\ outcomes[i].body.stages[2].shape \in AbsentShapes
           => pa_result[1].translation = << >>

\* C29: speaker_diarization applies the retry classification of
\* process_audio: a connection failure is retried with backoff up to the
\* default number of attempts, and a 200 answer takes one request.
C29_DiarizationRetriesAsProcessAudio ==
  (entry = "view_with_speakers" /\ pc \in {"enh_done", "done"} /\ include_diarization
     /\ pa_result # None)
    => /\ diar_reply = "connerr" => diar_requests = DefaultMaxRetries
       /\ diar_reply = "ok200" => diar_requests = 1

\* the segments of speaker id in the payload, in input order
RECURSIVE SegmentsOf(_, _)
SegmentsOf(speaker_labels, id) ==
  IF speaker_labels = << >> THEN << >>
  ELSE (IF Head(speaker_labels).isdict /\ Head(speaker_labels).islist
           /\ Head(speaker_labels).speaker_id = id
          THEN Head(speaker_labels).segments ELSE << >>)
       \o SegmentsOf(Tail(speaker_labels), id)

AllNumeric(speaker_labels) ==
  \A i \in 1..Len(speaker_labels) :
    \A j \in 1..Len(speaker_labels[i].segments) : speaker_labels[i].segments[j].numeric

\* one profile per distinct speaker id, holding that speaker's segments in
\* input order with end_time = start_time + duration, and their summed durations
AggregatedPerSpeaker(speaker_output, speakers) ==
  /\ { speakers[i].speaker_id : i \in 1..Len(speakers) } = ProfiledIds(speaker_output)
  /\ Len(speakers) = Cardinality(ProfiledIds(speaker_output))
  /\ \A i \in 1..Len(speakers) :
       LET sg == SegmentsOf(speaker_output.speaker_labels, speakers[i].speaker_id)
       IN  /\ speakers[i].segments =
                [j \in 1..Len(sg) |-> [start_time |-> sg[j].start_time,
                                       end_time |-> sg[j].start_time + sg[j].duration,
                                       duration |-> sg[j].duration]]
           /\ speakers[i].total_duration = SumSeq([j \in 1..Len(sg) |-> sg[j].duration])

FormattedLabels == spk_return # None /\ spk_payload[1].shape = "labels"

\* C30 as stated: _format_bhashini_speaker_data returns exactly one profile
\* per distinct speaker id, also when the id occurs in several entries, with
\* that speaker's segments in input order, end_time = start_time + duration
\* and total_duration the sum of the durations.
C30_AggregatedPerSpeaker ==
  FormattedLabels => AggregatedPerSpeaker(spk_payload[1], spk_return[1])

\* C30, amended: the same provided every start_time and duration is numeric;
\* when one is not, the list returned is empty.
C30_AggregatedWhenNumeric ==
  FormattedLabels =>
    IF AllNumeric(spk_payload[1].speaker_labels)
      THEN AggregatedPerSpeaker(spk_payload[1], spk_return[1])
      ELSE spk_return[1] = << >>

C30_Witness ==
  /\ FormattedLabels
  /\ AllNumeric(spk_payload[1].speaker_labels)
  /\ Len(spk_payload[1].speaker_labels) >= 2
  /\ Len(spk_return[1]) = 1
  /\ Len(spk_return[1][1].segments) >= 2
  /\ \E j \in 1..Len(spk_return[1][1].segments) :
       /\ spk_return[1][1].segments[j].start_time = 3
       /\ spk_return[1][1].segments[j].end_time = 5

\* C31: _format_bhashini_speaker_data returns the empty list for an output
\* that is empty, whose first element is no dict, that lacks
\* 'speaker_labels' or whose speaker_labels is not a non-empty list, and
\* also, rather than a partial list, when any segment holds a non-numeric
\* start_time or duration.
C31_MalformedYieldsEmpty ==
  spk_return # None =>
    /\ spk_payload[1].shape # "labels" => spk_return[1] = << >>
    /\ spk_payload[1].speaker_labels = << >> => spk_return[1] = << >>
    /\ ~AllNumeric(spk_payload[1].speaker_labels) => spk_return[1] = << >>

C31_Witness ==
  /\ spk_return = Some(<< >>)
  /\ spk_payload[1].shape = "labels"
  /\ Len(spk_payload[1].speaker_labels) = 2
  /\ spk_payload[1].speaker_labels[1] = LabelEntry("SPEAKER_00", << Segment(1) >>)
  /\ spk_payload[1].speaker_labels[2] = LabelEntry("SPEAKER_01", << BadSegment >>)

\* str(item.get(key, default)) of an action item, as the claim words it
Filled(value, default) == IF value = Absent THEN default ELSE value.str

IsDictItem(x) == x.isdict

IsStringDecision(x) == x.type = "str"

\* the dict items, in order, with the defaults in place of missing keys
KeptActionItems(items) ==
  LET kept == SelectSeq(items, IsDictItem)
  IN  [i \in 1..Len(kept) |->
         [item     |-> Filled(kept[i].item, "No description"),
          assignee |-> Filled(kept[i].assignee, "Not specified"),
          priority |-> Filled(kept[i].priority, "Medium"),
          dueDate  |-> Filled(kept[i].dueDate, "Not specified")]]

\* the string decisions, in order
KeptKeyDecisions(decisions) ==
  LET kept == SelectSeq(decisions, IsStringDecision)
  IN  [i \in 1..Len(kept) |-> kept[i].str]

\* the answer text was parsed, and the value parsed is a JSON object
ParsedObject ==
  /\ AnsweredWithText
  /\ JsonLoads(CleanJsonString(gem_answer[1].answer.text))
  /\ gem_answer[1].answer.doc.type = "object"

\* C32: on a successfully parsed JSON object, generate_summary_and_actions
\* returns the action items that are dicts, in order, with 'No description',
\* 'Not specified', 'Medium' and 'Not specified' in place of a missing item,
\* assignee, priority and dueDate, and the key decisions that are strings,
\* in order.
C32_ItemsAndDecisionsValidated ==
  ParsedObject =>
    /\ gem_return[1].value # None
    /\ gem_return[1].value[1].actionItems
         = KeptActionItems(gem_answer[1].answer.doc.actionItems.items)
    /\ gem_return[1].value[1].keyDecisions
         = KeptKeyDecisions(gem_answer[1].answer.doc.keyDecisions.items)

\* the answer text is a JSON value inside a code fence, with or without the tag
FencedJson ==
  gem_answer[1].answer.text \in { << Fence, "json", " ", JsonChunk, " ", Fence >>,
                                  << Fence, " ", JsonChunk, " ", Fence >> }

\* the same answer without the fence
Unfenced(reply) == [reply EXCEPT !.answer.text = << JsonChunk >>]

HasNo(chunk, t) == \A i \in 1..Len(t) : t[i] # chunk

\* a fenced JSON answer gives the result of the unfenced one, and a text
\* without fences is only trimmed
FenceStrippingIsNeutral ==
  /\ FencedJson
       => gem_return[1] = GenerateSummaryAndActions(gem_text[1], Unfenced(gem_answer[1]))
  /\ HasNo(Fence, gem_answer[1].answer.text)
       => CleanJsonString(gem_answer[1].answer.text) = Strip(gem_answer[1].answer.text)

CleanedTwiceIsCleanedOnce ==
  CleanJsonString(CleanJsonString(gem_answer[1].answer.text))
    = CleanJsonString(gem_answer[1].answer.text)

OneSpeakerPayload ==
  [shape |-> "labels", speaker_labels |-> << LabelEntry("SPEAKER_00", << Segment(2) >>) >>]

\* services.py:621-646: the dicts process_audio_with_speakers returns
EnhancedResults ==
  { Combined([transcription |-> t, translation |-> u, detected_language |-> "hi",
              status |-> "success"],
             sp, Len(sp), [i \in 1..Len(sp) |-> i],
             IF sp = << >> THEN "disabled" ELSE "completed") :
      t \in UpstreamTexts, u \in UpstreamTexts,
      sp \in { << >>, FormatBhashiniSpeakerData(OneSpeakerPayload),
               FormatBhashiniSpeakerData(DiarPayload) } }

InitView ==
  /\ entry = "view_with_speakers"
  /\ source_in = << "hi" >>
  /\ target_in = << "en" >>
  /\ pre_meeting_notes = << >>
  /\ include_diarization = TRUE
  /\ max_retries = DefaultMaxRetries
  /\ audio_ok = TRUE
  /\ diar_reply = "ok200"
  /\ aud_input = Some(DefaultAudio)
  /\ pc = "enh_done"
  /\ view_source = Some(<< "hi" >>)
  /\ view_target = Some(<< "en" >>)
  /\ source_lang = "hi"
  /\ target_lang = "en"
  /\ attempt = 0
  /\ requests = 0
  /\ sleeps = << >>
  /\ outcomes = << >>
  /\ pa_result = None
  /\ pa_error = None
  /\ diar_requests = 0
  /\ diar_result = None
  /\ diar_error = None
  /\ enh_result \in { Some(e) : e \in EnhancedResults }
  /\ enh_error = None
  /\ analysis_input = None
  /\ gemini_reply = None
  /\ gemini_requests = 0
  /\ analysis = None
  /\ response = None
  /\ aud_return = None
  /\ aud_content = None
  /\ ProcessStart
  /\ PureIdle

NextView == ViewWithSpeakersFinish

SpecView == InitView /\ [][NextView]_vars

\* the chunks of t from position i on
From(t, i) == SubSeq(t, i, Len(t))

\* what the view appended to the text chosen for the analysis
Appended ==
  From(analysis_input[1],
       1 + Len(IF enh_result[1].translation # << >> THEN enh_result[1].translation
               ELSE enh_result[1].transcription))

\* C34: in views.process_audio_with_speakers the analysis input begins with
\* the translation if non-empty, else the transcript; a speaker-time
\* breakdown with one line per profile follows exactly when more than one
\* speaker profile exists, and nothing follows otherwise.
C34_BreakdownForSeveralSpeakers ==
  (entry = "view_with_speakers" /\ analysis_input # None) =>
    LET e == enh_result[1]
        base == IF e.translation # << >> THEN e.translation ELSE e.transcription
        lines == { i \in 1..Len(Appended) : Appended[i] = "-" }
    IN  /\ SubSeq(analysis_input[1], 1, Len(base)) = base
        /\ IF Len(e.speakers) > 1
             THEN /\ Cardinality(lines) = Len(e.speakers)
                  /\ \A k \in 1..Len(e.speakers) :
                       \E i \in lines :
                         /\ Cardinality({ j \in lines : j <= i }) = k
                         /\ Appended[i + 2] = e.speakers[k].speaker_id
             ELSE Appended = << >>

C34_Witness ==
  /\ analysis_input # None
  /\ Len(enh_result[1].speakers) = 2
  /\ enh_result[1].translation = << >>
  /\ enh_result[1].transcription = << "namaste" >>
  /\ Len(Appended) > 0

\* C35: on the secondary decode path with native rate r and target t = 16000:
\* if |r - t| < 1000 the samples are returned unchanged with rate r;
\* otherwise if r > t the output keeps every step-th sample, step =
\* floor(r / t) >= 1, at rate t, so its length is ceil(n / step); otherwise
\* (r <= t - 1000) the samples are returned unchanged with rate r.
C35_SecondaryPathRates ==
  (aud_return # None /\ aud_input[1].decode = "secondary") =>
    LET r == aud_input[1].sr
        x == aud_input[1].signal
        n == Len(x)
        step == r \div 16000
        within == r - 16000 < 1000 /\ 16000 - r < 1000
    IN  /\ aud_return[1].y # None
        /\ IF within \/ r <= 16000
             THEN /\ aud_return[1].y[1] = x
                  /\ aud_return[1].sr = Some(r)
                  /\ within \/ r <= 16000 - 1000
             ELSE /\ step >= 1
                  /\ aud_return[1].sr = Some(16000)
                  /\ Len(aud_return[1].y[1]) * step >= n
                  /\ (Len(aud_return[1].y[1]) - 1) * step < n \/ n = 0
                  /\ \A i \in 1..Len(aud_return[1].y[1]) :
                       aud_return[1].y[1][i] = x[(i - 1) * step + 1]

C35_Witness ==
  /\ aud_return # None
  /\ aud_input[1].decode = "secondary"
  /\ aud_input[1].sr = 48000
  /\ aud_input[1].signal = Ramp(MaxSamples)
  /\ Len(aud_return[1].y[1]) < MaxSamples
  /\ aud_return[1].y[1][2] = Ramp(MaxSamples)[4]

\* speaker_diarization has been called, and the summarizer has been called
DiarizationCalled == diar_result # None \/ diar_error # None

SummarizerCalled == analysis_input # None

StagesInOrder ==
  /\ DiarizationCalled
       => (entry = "view_with_speakers" /\ include_diarization /\ pa_result # None)
  /\ SummarizerCalled
       => /\ pa_result # None
          /\ (entry = "view_with_speakers" /\ include_diarization) => DiarizationCalled
  /\ pa_error # None
       => (~DiarizationCalled /\ diar_requests = 0 /\ ~SummarizerCalled /\ gemini_requests = 0)
  /\ gemini_requests <= 1

\* a stage that has been called is not called again
StagesCalledOnce ==
  /\ DiarizationCalled => UNCHANGED << diar_requests, diar_result, diar_error >>
  /\ SummarizerCalled => UNCHANGED << analysis_input, gemini_requests, analysis >>
  /\ (DiarizationCalled \/ SummarizerCalled) => UNCHANGED << requests, pa_result, pa_error >>

\* C36: within one request the stages run in the order transcription,
\* diarization, summarization: diarization is called at most once and only
\* after transcription returned successfully with include_diarization true,
\* summarization at most once and only after both, and after a fatal
\* transcription failure neither of the two is called.
C36_StagesInOrder == []StagesInOrder /\ [][StagesCalledOnce]_vars

C36_Witness ==
  /\ pc = "done"
  /\ entry = "view_with_speakers"
  /\ include_diarization
  /\ requests >= 2
  /\ DiarizationCalled
  /\ SummarizerCalled
  /\ response[1].success

\* C37: the raise placed after the retry loop of process_audio is never
\* reached: for every max_retries, 0 included, the call returns or raises
\* from inside the loop, so a request has been sent whenever process_audio
\* fails after the audio was decoded.
C37_AfterLoopRaiseUnreachable ==
  (audio_ok /\ pa_error # None) =>
    /\ pa_error[1].message # "after_loop"
    /\ requests >= 1

\* every attempt allowed was made and failed for a retryable reason
AllAttemptsFailed ==
  /\ PaFinished
  /\ max_retries >= 1
  /\ Len(outcomes) = max_retries
  /\ \A i \in 1..Len(outcomes) : RetryableOutcome(outcomes[i])

\* C38: when the attempts of process_audio fail for retryable reasons, the
\* status of the raised APIError is decided by the last attempt alone: 500
\* after an HTTP 500 or an unexpected exception, 408 after a timeout, 503
\* after a connection failure, whatever the earlier attempts failed with.
C38_LastAttemptDecidesStatus ==
  AllAttemptsFailed =>
    /\ pa_result = None
    /\ pa_error # None
    /\ pa_error[1].status_code =
         (CASE outcomes[Len(outcomes)].kind = "timeout" -> 408
            [] outcomes[Len(outcomes)].kind = "connerr" -> 503
            [] OTHER -> 500)

C38_Witness ==
  /\ AllAttemptsFailed
  /\ Len(outcomes) = 3
  /\ outcomes[1].kind = "connerr"
  /\ outcomes[2] = ServerError
  /\ outcomes[3].kind = "timeout"
  /\ pa_error[1].status_code = 408

\* C39: in every success response of views.process_audio the transcript is
\* the text of the upstream ASR stage and the translation is the text of the
\* upstream translation stage or a copy of that transcript; when both texts
\* came back empty, both returned fields are empty.
C39_TextsComeFromTheStages ==
  (Succeeded /\ entry = "view_process_audio") =>
    LET r == pa_result[1]
        d == response[1].data[1]
    IN  /\ d.transcript = r.transcription
        /\ d.translation \in {r.translation, r.transcription}
        /\ (r.transcription = << >> /\ r.translation = << >>)
             => (d.transcript = << >> /\ d.translation = << >>)

\* C40: in every success response the sourceLanguage and targetLanguage of
\* the metadata are the codes that were placed in the upstream request, and
\* the source is the returned detected_language, for every input, codes
\* coerced to the defaults included.
C40_MetadataLanguagesAreRequestLanguages ==
  Succeeded =>
    /\ response[1].data[1].sourceLanguage = << source_lang >>
    /\ response[1].data[1].targetLanguage = << target_lang >>
    /\ response[1].data[1].sourceLanguage = << pa_result[1].detected_language >>

====
